---- MODULE Spec2Model ----
(***************************************************************************)
(* Floating-window demo: the two window managers (src/js/windows.js, the   *)
(* 24 px grid manager, and src/unnamed/part_003, the column-slot manager)  *)
(* and the pointer gesture recognizer (src/js/gestures.js).                *)
(*                                                                         *)
(* Numbers are CSS pixels.  A JavaScript NaN is the value NaN below; every *)
(* arithmetic helper propagates it the way Math.max / Math.min / + do.     *)
(***************************************************************************)
EXTENDS Integers, Sequences, FiniteSets, TLC

VARIABLES
  impl,         \* which window manager the page loaded: GridWM or SlotWM
  animeLoaded,  \* whether the AnimeJS global `anime` is defined
  viewport,     \* [w, h]: window.innerWidth / innerHeight
  windows,      \* the registry Map: window id -> element handle
  els,          \* element handle -> the element / WindowRecord fields
  zCursor,      \* zIndexCursor (windows.js) / zCounter (part_003)
  saved,        \* persisted layout: window id -> layout entry
  closing,      \* element handle -> pending close-animation callbacks
  sessions,     \* element handle -> live startDrag/startResize closures
  raf,          \* windows.js: what moveWithRaf and sizeWithRaf have scheduled
  recog,        \* the closure state of one attachWindowGestures call
  calls,        \* the callbacks the last step invoked, in order
  dbs,          \* the message store: which db module, localStorage entry, last result
  nav,          \* the StateManager: which version, history, currentScreen
  sw,           \* the service worker: the cache, the last request and its answer
  capture,      \* gestures.js: the pointer-capture calls the last step made, in order
  last          \* the handler that ran last: [op, id]

wmVars == <<impl, animeLoaded, viewport, windows, els, zCursor, saved, closing, sessions, raf>>

appVars == <<dbs, nav, sw>>

vars == <<impl, animeLoaded, viewport, windows, els, zCursor, saved, closing, sessions, raf, recog, calls, capture, last, dbs, nav, sw>>

----------------------------------------------------------------------------
(* Bounds of the model *)

MaxElems == 2
MaxFocus == 3
MaxPendingClose == 2
MaxSessions == 1

GridWM == "grid"
SlotWM == "slot"

Ids == {"chat", "repo"}

----------------------------------------------------------------------------
(* JavaScript number helpers *)

NaN == 0 - 1000000000

IsNaN(v) == v = NaN

\* A property that is not there.  v ?? d
Undefined == 0 - 2000000000

Coalesce(v, d) == IF v = Undefined THEN d ELSE v

Mul(a, b) == IF IsNaN(a) \/ IsNaN(b) THEN NaN ELSE a * b

\* The number a plain object such as { scale: 1.2 } converts to in arithmetic.
ObjectToNumber(obj) == NaN

Add(a, b) == IF IsNaN(a) \/ IsNaN(b) THEN NaN ELSE a + b

Sub(a, b) == IF IsNaN(a) \/ IsNaN(b) THEN NaN ELSE a - b

MathMax(a, b) == IF IsNaN(a) \/ IsNaN(b) THEN NaN ELSE IF a >= b THEN a ELSE b

MathMin(a, b) == IF IsNaN(a) \/ IsNaN(b) THEN NaN ELSE IF a <= b THEN a ELSE b

\* Math.round of the rational n/d (d > 0): halves go towards +Infinity.
MathRound(n, d) == (2 * n + d) \div (2 * d)

\* parseFloat(s) || dflt for a dataset string that holds a number.
OrDefault(v, dflt) == IF IsNaN(v) \/ v = 0 THEN dflt ELSE v

\* What JSON.parse gives for the texts "null" and "5": null, and a primitive.
\* Reading a property of null throws, reading one of a primitive gives
\* undefined; assigning a property throws for both in module (strict) code.
JsNull == [null |-> TRUE]

JsNumber == [number |-> TRUE]

IsObject(state) == state \notin {JsNull, JsNumber}

Put(f, k, v) == [x \in DOMAIN f \cup {k} |-> IF x = k THEN v ELSE f[x]]

Del(f, k) == [x \in DOMAIN f \ {k} |-> f[x]]

----------------------------------------------------------------------------
(* Program constants *)

SNAP_SIZE == 24

ZStartGrid == 100

ZStartSlot == 200

ClampPadding == 16

MinWidth == 220

MinHeight == 160

SlotWidth == 320

SlotGap == 16

SlotMinCenter == 420

SlotDefaultY == 120

MobileBreak == 900

ZStart == IF impl = GridWM THEN ZStartGrid ELSE ZStartSlot

----------------------------------------------------------------------------
(* Inputs *)

Viewports == {[w |-> 1280, h |-> 800], [w |-> 375, h |-> 667]}

\* createWindow descriptors: geometry given, or left to the defaults.
Descriptors ==
  { [given |-> FALSE, x |-> 0, y |-> 0, w |-> 0, h |-> 0],
    [given |-> TRUE, x |-> 80, y |-> 80, w |-> 360, h |-> 320] }

\* setWindowSize arguments.
Sizes == { <<400, 300>>, <<100, 0 - 5>> }

\* The windows the explored gestures and size requests act on; windows are
\* independent of each other in everything but focus.
GeoIds == {"chat"}

\* Client coordinates of the pointerdown that starts a drag (on the header)
\* or a resize (on the handle in the bottom right corner).
DragDown == { <<90, 90>> }

ResizeDown == { <<440, 400>> }

\* Client coordinates of pointermove events.
MovePts == { <<140, 80>>, <<500, 460>> }

\* Positions and sizes the recognizer hands to the slot manager's callbacks.
DragPos == { <<130, 70>>, <<900, 0>> }

ResizeDims == { <<280, 220>> }

----------------------------------------------------------------------------
(* The window-manager state as one record, so that handlers compose *)

\* threw is set by a handler that ends in an uncaught exception.
WM ==
  [windows |-> windows, els |-> els, zCursor |-> zCursor, saved |-> saved,
   closing |-> closing, sessions |-> sessions, raf |-> raf, threw |-> FALSE]

SetWM(r) ==
  /\ windows' = r.windows
  /\ els' = r.els
  /\ zCursor' = r.zCursor
  /\ saved' = r.saved
  /\ closing' = r.closing
  /\ sessions' = r.sessions
  /\ raf' = r.raf

\* A handle for the element document.createElement returns: the lowest one free.
FreshEl(wm) ==
  CHOOSE e \in 1..(Cardinality(DOMAIN wm.els) + 1) :
    e \notin DOMAIN wm.els /\ \A f \in 1..(e - 1) : f \in DOMAIN wm.els

\* Nothing scheduled: no element waits for a position, none for a size.
NoRaf == [move |-> 0, size |-> [el |-> 0, byRect |-> FALSE, w |-> 0, h |-> 0]]

\* The inline style of a new element: no transform, no width, no height.
NoStyle == [x |-> Undefined, y |-> Undefined, w |-> Undefined, h |-> Undefined]

NewElement(id, g, ds) ==
  [id |-> id, x |-> g.x, y |-> g.y, w |-> g.w, h |-> g.h, z |-> 0, shown |-> NoStyle, ord |-> 0,
   focused |-> FALSE, attached |-> TRUE, dstate |-> ds, slot |-> "",
   scale |-> <<1, 1>>, snapped |-> FALSE, modal |-> FALSE,
   pinchActive |-> FALSE, pinchBaseScale |-> <<1, 1>>]

AddElement(wm, e, rec) ==
  [wm EXCEPT !.els = Put(wm.els, e, rec),
             !.closing = Put(wm.closing, e, 0),
             !.sessions = Put(wm.sessions, e, << >>)]

\* An element that is out of the document and that no pending callback holds
\* can never be observed again: it is dropped from the model.
Collect(wm, e) ==
  IF /\ e \in DOMAIN wm.els /\ ~wm.els[e].attached /\ wm.closing[e] = 0 /\ recog.el # e
     /\ wm.raf.move # e /\ wm.raf.size.el # e
  THEN [wm EXCEPT !.els = Del(wm.els, e),
                  !.closing = Del(wm.closing, e),
                  !.sessions = Del(wm.sessions, e)]
  ELSE wm

----------------------------------------------------------------------------
(* src/js/windows.js: the grid manager *)

snap(value) == IF IsNaN(value) THEN NaN ELSE MathRound(value, SNAP_SIZE) * SNAP_SIZE

\* rect.width / rect.height of a rect object whose keys are x, y, w, h:
\* the property is undefined, and undefined in arithmetic is NaN.
RectWidth(rect) == NaN

RectHeight(rect) == NaN

clampWindow(rect) ==
  LET maxX == Sub(Sub(viewport.w, RectWidth(rect)), ClampPadding)
      maxY == Sub(Sub(viewport.h, RectHeight(rect)), ClampPadding)
  IN [x |-> MathMax(ClampPadding, MathMin(rect.x, MathMax(ClampPadding, maxX))),
      y |-> MathMax(ClampPadding, MathMin(rect.y, MathMax(ClampPadding, maxY)))]

\* el.style.transform = `translate3d(${x}px, ${y}px, 0)`: with NaN in it the
\* value is not valid CSS and the assignment leaves the style as it was.
applyPosition(rec, pos) ==
  IF IsNaN(pos.x) \/ IsNaN(pos.y) \/ pos.x = Undefined \/ pos.y = Undefined THEN rec
  ELSE [rec EXCEPT !.shown.x = pos.x, !.shown.y = pos.y]

\* el.style.width = `${w}px`: a negative length is not valid CSS.
SetLength(old, v) == IF IsNaN(v) \/ v = Undefined \/ v < 0 THEN old ELSE v

\* if (w) ...; if (h) ...
applySize(rec, size) ==
  [rec EXCEPT !.shown.w = IF size.w = 0 THEN @ ELSE SetLength(@, size.w),
              !.shown.h = IF size.h = 0 THEN @ ELSE SetLength(@, size.h)]

\* withRaf: a call while a frame is pending is dropped.
moveWithRaf(wm, e) == IF wm.raf.move # 0 THEN wm ELSE [wm EXCEPT !.raf.move = e]

sizeWithRaf(wm, e, byRect, size) ==
  IF wm.raf.size.el # 0 THEN wm
  ELSE [wm EXCEPT !.raf.size = [el |-> e, byRect |-> byRect, w |-> size.w, h |-> size.h]]

\* The animation frame: the scheduled callbacks run.  Those given the record's
\* rect object read what it holds now.
Grid_animationFrame(wm) ==
  LET m == wm.raf.move
      z == wm.raf.size
      wm1 == IF m # 0 /\ m \in DOMAIN wm.els
             THEN [wm EXCEPT !.els[m] = applyPosition(@, @)] ELSE wm
      wm2 == IF z.el # 0 /\ z.el \in DOMAIN wm1.els
             THEN [wm1 EXCEPT !.els[z.el] = applySize(@, IF z.byRect THEN @ ELSE z)] ELSE wm1
      wm3 == [wm2 EXCEPT !.raf = NoRaf]
      wm4 == IF m # 0 THEN Collect(wm3, m) ELSE wm3
  IN IF z.el # 0 THEN Collect(wm4, z.el) ELSE wm4

\* parseInt(v, 10) || v on a number: whole numbers and NaN come back as they are.
ParseIntOr(v) == v

persistStateSnapshot(wm, id, rect) ==
  IF ~IsObject(wm.saved) THEN [wm EXCEPT !.threw = TRUE]       \* state[id] = {...}
  ELSE [wm EXCEPT !.saved = Put(wm.saved, id,
          [x |-> rect.x, y |-> rect.y, w |-> ParseIntOr(rect.w), h |-> ParseIntOr(rect.h)])]

\* Mutant of focusWindow: the other windows keep their focus mark.
Grid_focusWindow_keepsOthers(wm, id) ==
  IF id \notin DOMAIN wm.windows THEN wm
  ELSE LET e == wm.windows[id]
       IN [wm EXCEPT !.zCursor = @ + 1, !.els[e].focused = TRUE, !.els[e].z = wm.zCursor + 1]

Grid_focusWindow(wm, id) ==
  IF id \notin DOMAIN wm.windows THEN wm
  ELSE LET e == wm.windows[id]
           z == wm.zCursor + 1
           reg == {wm.windows[i] : i \in DOMAIN wm.windows}
       IN [wm EXCEPT !.zCursor = z,
                     !.els = [f \in DOMAIN wm.els |->
                                IF f \in reg
                                THEN [wm.els[f] EXCEPT !.focused = (wm.els[f].id = id),
                                                       !.z = IF f = e THEN z ELSE @]
                                ELSE wm.els[f]]]

GridDefault == [x |-> 80, y |-> 80, w |-> 360, h |-> 320]

Grid_createWindow(wm, id, d) ==
  IF id \in DOMAIN wm.windows THEN Grid_focusWindow(wm, id)
  ELSE IF wm.saved = JsNull
  THEN \* state[id] throws once the new element is in the layer
       [AddElement(wm, FreshEl(wm), NewElement(id, NoStyle, "")) EXCEPT !.threw = TRUE]
  ELSE LET e == FreshEl(wm)
           g == IF d.given THEN d ELSE GridDefault
           rect == IF id \in DOMAIN wm.saved
                   THEN [x |-> Coalesce(wm.saved[id].x, g.x), y |-> Coalesce(wm.saved[id].y, g.y),
                         w |-> Coalesce(wm.saved[id].w, g.w), h |-> Coalesce(wm.saved[id].h, g.h)]
                   ELSE [x |-> g.x, y |-> g.y, w |-> g.w, h |-> g.h]
           el == applyPosition(applySize(NewElement(id, rect, ""), rect), clampWindow(rect))
           wm1 == AddElement(wm, e, el)
           wm2 == [wm1 EXCEPT !.windows = Put(wm1.windows, id, e)]
       IN Grid_focusWindow(wm2, id)

\* What createWindow returns: the registered record's element.
Grid_createWindowResult(wm, id, d) == Grid_createWindow(wm, id, d).windows[id]

Grid_closeWindow(wm, id) ==
  IF id \notin DOMAIN wm.windows THEN wm
  ELSE IF animeLoaded
       THEN [wm EXCEPT !.closing[wm.windows[id]] = @ + 1]
       ELSE wm

\* The `complete` callback of the close animation started for element e.
Grid_closeComplete(wm, e) ==
  LET id == wm.els[e].id
      wm1 == [wm EXCEPT !.closing[e] = @ - 1]
  IN IF ~wm.els[e].attached
     THEN Collect([wm1 EXCEPT !.threw = TRUE], e)   \* layer.removeChild throws: the rest is skipped
     ELSE Collect([wm1 EXCEPT !.els[e].attached = FALSE,
                              !.windows = Del(wm1.windows, id),
                              !.saved = Del(wm1.saved, id)], e)

\* Mutant of setWindowSize: the size is persisted for an id without a record.
Grid_setWindowSize_unguarded(wm, id, w, h) ==
  IF id \notin DOMAIN wm.windows
  THEN persistStateSnapshot(wm, id, [x |-> Undefined, y |-> Undefined, w |-> w, h |-> h])
  ELSE LET e == wm.windows[id]
           wm1 == [wm EXCEPT !.els[e] = applySize([@ EXCEPT !.w = w, !.h = h], [w |-> w, h |-> h])]
       IN persistStateSnapshot(wm1, id, wm1.els[e])

Grid_setWindowSize(wm, id, w, h) ==
  IF id \notin DOMAIN wm.windows THEN wm
  ELSE LET e == wm.windows[id]
           wm1 == [wm EXCEPT !.els[e] = applySize([@ EXCEPT !.w = w, !.h = h], [w |-> w, h |-> h])]
       IN persistStateSnapshot(wm1, id, wm1.els[e])

\* startDrag / startResize: the closure a pointerdown on the header or on the
\* resize handle leaves behind.  p is the event's (clientX, clientY).
Grid_startDrag(wm, e, p) ==
  LET wm1 == Grid_focusWindow(wm, wm.els[e].id)
      rect == wm1.els[e]
      s == [kind |-> "drag",
            a |-> Sub(p[1], rect.x), b |-> Sub(p[2], rect.y),   \* offset
            c |-> rect.x, d |-> rect.y,                          \* start
            px |-> p[1], py |-> p[2], cx |-> p[1], cy |-> p[2]]
  IN [wm1 EXCEPT !.sessions[e] = Append(@, s)]

Grid_startResize(wm, e, p) ==
  LET wm1 == Grid_focusWindow(wm, wm.els[e].id)
      rect == wm1.els[e]
      s == [kind |-> "resize",
            a |-> rect.w, b |-> rect.h,                          \* startSize
            c |-> p[1], d |-> p[2],                              \* startPos
            px |-> p[1], py |-> p[2], cx |-> p[1], cy |-> p[2]]
  IN [wm1 EXCEPT !.sessions[e] = Append(@, s)]

\* One `move` listener of a session, run for a pointermove at p.
Grid_move(rec, s, p) ==
  IF s.kind = "drag"
  THEN LET next == [x |-> Sub(p[1], s.a), y |-> Sub(p[2], s.b), w |-> rec.w, h |-> rec.h]
           clamped == clampWindow(next)
       IN [rec EXCEPT !.x = clamped.x, !.y = clamped.y]
  ELSE [rec EXCEPT !.w = MathMax(MinWidth, Add(s.a, Sub(p[1], s.c))),
                   !.h = MathMax(MinHeight, Add(s.b, Sub(p[2], s.d)))]

RECURSIVE Grid_moveAll(_, _, _)
Grid_moveAll(rec, ss, p) ==
  IF ss = << >> THEN rec ELSE Grid_moveAll(Grid_move(rec, Head(ss), p), Tail(ss), p)

\* A pointermove on element e from the pointer of session k: every session's
\* `move` listener is on the element and runs, in the order they were added.
Grid_pointerMove(wm, e, k, p) ==
  LET ss == wm.sessions[e]
      wm1 == [wm EXCEPT !.els[e] = Grid_moveAll(wm.els[e], ss, p),
                        !.sessions[e][k].cx = p[1],
                        !.sessions[e][k].cy = p[2]]
      wm2 == IF \E j \in 1..Len(ss) : ss[j].kind = "drag" THEN moveWithRaf(wm1, e) ELSE wm1
  IN IF \E j \in 1..Len(ss) : ss[j].kind = "resize"
     THEN sizeWithRaf(wm2, e, TRUE, wm2.els[e]) ELSE wm2

\* One `up` listener of a session.
Grid_up(wm, e, s) ==
  LET rec == wm.els[e]
      rec0 == IF s.kind = "drag"
              THEN [rec EXCEPT !.x = snap(rec.x), !.y = snap(rec.y)]
              ELSE [rec EXCEPT !.w = snap(rec.w), !.h = snap(rec.h)]
      rec1 == IF s.kind = "drag" THEN applyPosition(rec0, rec0) ELSE applySize(rec0, rec0)
  IN persistStateSnapshot([wm EXCEPT !.els[e] = rec1], rec.id, rec1)

RECURSIVE Grid_upAll(_, _, _)
Grid_upAll(wm, e, ss) ==
  IF ss = << >> THEN wm ELSE Grid_upAll(Grid_up(wm, e, Head(ss)), e, Tail(ss))

\* A pointerup or pointercancel on element e: every session's `up` listener
\* runs and removes its listeners.
Grid_pointerUp(wm, e) ==
  [Grid_upAll(wm, e, wm.sessions[e]) EXCEPT !.sessions[e] = << >>]

\* window 'resize': every registered record is clamped again, then persistState().
Grid_onResize(wm) ==
  LET reg == {wm.windows[i] : i \in DOMAIN wm.windows}
  IN [wm EXCEPT !.els = [f \in DOMAIN wm.els |->
                           IF f \in reg
                           THEN LET c == clampWindow(wm.els[f])
                                IN applyPosition([wm.els[f] EXCEPT !.x = c.x, !.y = c.y], c)
                           ELSE wm.els[f]]]

PinchMinWidth == 220

PinchMinHeight == 160

\* The onPinch callback createWindow hands to attachWindowGestures.  The
\* recognizer calls it with the object { scale }, which it uses as a number.
Grid_onPinch(wm, e, arg) ==
  LET rect == wm.els[e]
      id == rect.id
      scale == ObjectToNumber(arg)
      newWidth == MathMax(PinchMinWidth, Mul(rect.w, scale))
      newHeight == MathMax(PinchMinHeight, Mul(rect.h, scale))
      old == IF id \in DOMAIN wm.saved THEN wm.saved[id]
             ELSE [x |-> Undefined, y |-> Undefined, w |-> Undefined, h |-> Undefined]
      wm1 == sizeWithRaf([wm EXCEPT !.els[e].w = newWidth, !.els[e].h = newHeight],
                         e, FALSE, [w |-> newWidth, h |-> newHeight])
  IN [wm1 EXCEPT !.saved = Put(wm.saved, id, [old EXCEPT !.w = newWidth, !.h = newHeight])]

MaximizedX == 20

MaximizedY == 20

MaximizedMarginW == 40

MaximizedMarginH == 60

Grid_toggleMaximize(wm, e) ==
  LET rec == wm.els[e]
      rec1 == IF rec.dstate = "maximized"
              THEN applyPosition(applySize([rec EXCEPT !.dstate = ""], rec), rec)
              ELSE applyPosition(
                     [rec EXCEPT !.dstate = "maximized",
                                 !.shown.w = SetLength(@, viewport.w - MaximizedMarginW),
                                 !.shown.h = SetLength(@, viewport.h - MaximizedMarginH)],
                     [x |-> MaximizedX, y |-> MaximizedY])
  IN persistStateSnapshot([wm EXCEPT !.els[e] = rec1], rec.id, rec1)

Grid_minimizeWindow(wm, id, silent) ==
  IF id \notin DOMAIN wm.windows THEN wm
  ELSE LET e == wm.windows[id]
           wm1 == [wm EXCEPT !.els[e].dstate = IF @ = "minimized" THEN "" ELSE "minimized"]
       IN IF silent THEN wm1 ELSE persistStateSnapshot(wm1, id, wm1.els[e])

----------------------------------------------------------------------------
(* src/unnamed/part_003: the slot manager *)

SlotDefault == [x |-> 120, y |-> 140, w |-> 360, h |-> 420]

updatePosition(rec, x, y) == [rec EXCEPT !.x = x, !.y = y]

\* persistWindow: loadState(), overwrite the element's entry, saveState().
persistWindow(wm, e) ==
  LET rec == wm.els[e]
  IN IF ~IsObject(wm.saved) THEN [wm EXCEPT !.threw = TRUE]   \* state[windowEl.id] = {...}
     ELSE [wm EXCEPT !.saved = Put(wm.saved, rec.id,
        [x |-> OrDefault(rec.x, 0), y |-> OrDefault(rec.y, 0),
         width |-> IF rec.attached THEN rec.w ELSE 0,       \* offsetWidth
         height |-> IF rec.attached THEN rec.h ELSE 0,      \* offsetHeight
         slot |-> rec.slot,
         state |-> IF rec.dstate = "" THEN "normal" ELSE rec.dstate,
         scale |-> IF rec.scale = <<0, 0>> THEN <<1, 1>> ELSE rec.scale])]

removePersisted(wm, id) ==
  IF wm.saved = JsNull THEN [wm EXCEPT !.threw = TRUE]         \* delete state[id]
  ELSE [wm EXCEPT !.saved = Del(wm.saved, id)]

\* snapToGrid docks the window into the left, centre or right column.  The
\* bounding rect's centre is x + w/2 (the scale transform keeps the centre);
\* centerX < vw/3 is 3 * (2x + w) < 2 * vw.
snapToGrid(rec) ==
  LET vw == viewport.w
      c6 == 3 * (2 * rec.x + rec.w)
      currentY == OrDefault(rec.y, SlotDefaultY)
      reserved == SlotWidth * 2 + SlotGap * 2
      width == MathMax(SlotMinCenter, vw - reserved)
  IN IF vw < MobileBreak \/ rec.modal
     THEN [rec EXCEPT !.slot = ""]
     ELSE IF c6 < 2 * vw
     THEN [updatePosition([rec EXCEPT !.slot = "left", !.w = SlotWidth], SlotGap, currentY)
             EXCEPT !.snapped = TRUE]
     ELSE IF c6 > 4 * vw
     THEN [updatePosition([rec EXCEPT !.slot = "right", !.w = SlotWidth],
                          vw - SlotWidth - SlotGap, currentY)
             EXCEPT !.snapped = TRUE]
     ELSE [updatePosition([rec EXCEPT !.slot = "center", !.w = width],
                          (vw - width) \div 2, currentY)
             EXCEPT !.snapped = TRUE]

\* Mutant of applyState: the persisted width is not applied.
applyState_keepsWidth(rec, st) ==
  LET r2 == IF st.height # 0 THEN [rec EXCEPT !.h = st.height] ELSE rec
      r3 == IF st.slot # "" THEN [r2 EXCEPT !.slot = st.slot, !.snapped = TRUE] ELSE r2
      r4 == IF st.state # "" THEN [r3 EXCEPT !.dstate = st.state] ELSE r3
      r5 == IF st.scale # <<0, 0>> THEN [r4 EXCEPT !.scale = st.scale] ELSE r4
  IN updatePosition(r5, st.x, st.y)

applyState(rec, st) ==
  LET r1 == IF st.width # 0 THEN [rec EXCEPT !.w = st.width] ELSE rec
      r2 == IF st.height # 0 THEN [r1 EXCEPT !.h = st.height] ELSE r1
      r3 == IF st.slot # "" THEN [r2 EXCEPT !.slot = st.slot, !.snapped = TRUE] ELSE r2
      r4 == IF st.state # "" THEN [r3 EXCEPT !.dstate = st.state] ELSE r3
      r5 == IF st.scale # <<0, 0>> THEN [r4 EXCEPT !.scale = st.scale] ELSE r4
  IN updatePosition(r5, st.x, st.y)

Slot_focusWindow(wm, id) ==
  IF id \notin DOMAIN wm.windows THEN wm
  ELSE LET e == wm.windows[id]
           z == wm.zCursor + 1
           reg == {wm.windows[i] : i \in DOMAIN wm.windows}
       IN [wm EXCEPT !.zCursor = z,
                     !.els = [f \in DOMAIN wm.els |->
                                IF f = e THEN [wm.els[f] EXCEPT !.focused = TRUE, !.z = z]
                                ELSE IF f \in reg THEN [wm.els[f] EXCEPT !.focused = FALSE]
                                ELSE wm.els[f]]]

\* windowsMap.set(id, windowEl): a Map lists its values in insertion order, a
\* key that is set again keeps its place.  ord is the element's place.
Register(wm, id, e) ==
  LET place == IF id \in DOMAIN wm.windows THEN wm.els[wm.windows[id]].ord
               ELSE Cardinality(DOMAIN wm.windows) + 1
      wm1 == IF id \in DOMAIN wm.windows THEN [wm EXCEPT !.els[wm.windows[id]].ord = 0] ELSE wm
  IN [wm1 EXCEPT !.els[e].ord = place, !.windows = Put(wm.windows, id, e)]

\* windowsMap.delete(id): the values after it move up one place.
Unregister(wm, id) ==
  IF id \notin DOMAIN wm.windows THEN wm
  ELSE LET gone == wm.windows[id]
           place == wm.els[gone].ord
           rest == {wm.windows[i] : i \in DOMAIN wm.windows \ {id}}
       IN [wm EXCEPT !.windows = Del(wm.windows, id),
                     !.els = [f \in DOMAIN wm.els |->
                                IF f = gone THEN [wm.els[f] EXCEPT !.ord = 0]
                                ELSE IF f \in rest /\ wm.els[f].ord > place
                                THEN [wm.els[f] EXCEPT !.ord = @ - 1]
                                ELSE wm.els[f]]]

\* listWindows(): Array.from(windowsMap.values())
listWindows(wm) ==
  LET reg == {wm.windows[i] : i \in DOMAIN wm.windows}
  IN [k \in 1..Cardinality(reg) |-> CHOOSE e \in reg : wm.els[e].ord = k]

\* Mutant of createWindow: the registry is not consulted first.
Slot_createWindow_noLookup(wm, id, d) ==
  IF Cardinality(DOMAIN wm.els) >= MaxElems THEN Slot_focusWindow(wm, id)
  ELSE LET e == FreshEl(wm)
           wm1 == AddElement(wm, e, NewElement(id, IF d.given THEN d ELSE SlotDefault, "normal"))
       IN persistWindow(Slot_focusWindow(Register(wm1, id, e), id), e)

Slot_createWindow(wm, id, d) ==
  IF id \in DOMAIN wm.windows THEN Slot_focusWindow(wm, id)
  ELSE IF wm.saved = JsNull THEN [wm EXCEPT !.threw = TRUE]    \* loadState()[options.id]
  ELSE LET e == FreshEl(wm)
           g == IF d.given THEN d ELSE SlotDefault
           built == NewElement(id, g, "normal")
           rec == IF id \in DOMAIN wm.saved THEN applyState(built, wm.saved[id]) ELSE built
           wm1 == AddElement(wm, e, rec)
       IN persistWindow(Slot_focusWindow(Register(wm1, id, e), id), e)

Slot_createWindowResult(wm, id, d) == Slot_createWindow(wm, id, d).windows[id]

Slot_closeWindow(wm, id) ==
  IF id \notin DOMAIN wm.windows THEN wm
  ELSE IF animeLoaded
       THEN [wm EXCEPT !.closing[wm.windows[id]] = @ + 1]
       ELSE wm

\* The `complete` callback of the close animation closeWindow(id) started for
\* element e: windowEl.remove(), windowsMap.delete(id), removePersisted(id).
Slot_closeComplete(wm, e) ==
  LET id == wm.els[e].id
      wm1 == Unregister([wm EXCEPT !.closing[e] = @ - 1, !.els[e].attached = FALSE], id)
  IN Collect(removePersisted(wm1, id), e)

\* style.width = `${width}px`: a negative length is not valid CSS and the
\* assignment is ignored; offsetWidth then reads the width back.
StyleLength(old, v) == IF v < 0 THEN old ELSE v

Slot_setWindowSize(wm, id, width, height) ==
  IF id \notin DOMAIN wm.windows THEN wm
  ELSE LET e == wm.windows[id]
       IN persistWindow([wm EXCEPT !.els[e].w = StyleLength(@, width),
                                   !.els[e].h = StyleLength(@, height)], e)

\* The callbacks createWindow hands to attachWindowGestures for element e.
\* Mutant of onDrag: every position update is persisted.
Slot_onDrag_persists(wm, e, pos) ==
  persistWindow([wm EXCEPT !.els[e] = updatePosition([@ EXCEPT !.snapped = FALSE], pos[1], pos[2])], e)

Slot_onDrag(wm, e, pos) ==
  [wm EXCEPT !.els[e] = updatePosition([@ EXCEPT !.snapped = FALSE], pos[1], pos[2])]

Slot_onDragEnd(wm, e) ==
  persistWindow([wm EXCEPT !.els[e] = snapToGrid(@)], e)

Slot_onResize(wm, e, dim) ==
  [wm EXCEPT !.els[e].w = StyleLength(@, dim[1]), !.els[e].h = StyleLength(@, dim[2])]

Slot_onResizeEnd(wm, e) == persistWindow(wm, e)

----------------------------------------------------------------------------
(* src/js/app.js: the 'window:swipe' listener of bindWindowGesturesEvents *)

\* Mutant of the listener: the index stops at the ends of the list.
onWindowSwipe_noWrap(wm, direction) ==
  LET ws == listWindows(wm)
      active == {k \in 1..Len(ws) : wm.els[ws[k]].focused}
      offset == IF direction = "left" THEN 0 - 1 ELSE IF direction = "right" THEN 1 ELSE 0
  IN IF active = {} \/ offset = 0 THEN wm
     ELSE LET activeIndex == (CHOOSE k \in active : \A j \in active : k <= j) - 1
              nextIndex == MathMax(0, MathMin(Len(ws) - 1, activeIndex + offset))
          IN Slot_focusWindow(wm, wm.els[ws[nextIndex + 1]].id)

onWindowSwipe(wm, direction) ==
  LET ws == listWindows(wm)
      active == {k \in 1..Len(ws) : wm.els[ws[k]].focused}
      offset == IF direction = "left" THEN 0 - 1 ELSE IF direction = "right" THEN 1 ELSE 0
  IN IF active = {} \/ offset = 0 THEN wm
     ELSE LET activeIndex == (CHOOSE k \in active : \A j \in active : k <= j) - 1
              nextIndex == (activeIndex + offset + Len(ws)) % Len(ws)
          IN Slot_focusWindow(wm, wm.els[ws[nextIndex + 1]].id)

----------------------------------------------------------------------------
(* Numbers of the form sqrt(n/d), kept as the pair <<n, d>> in lowest terms: *)
(* a distance is the root of an integer, a pinch scale a ratio of distances. *)
(* <<0, 0>> is NaN.                                                          *)

RECURSIVE GCD(_, _)
GCD(a, b) == IF b = 0 THEN a ELSE GCD(b, a % b)

SqNaN == <<0, 0>>

Sq(n, d) == IF d = 0 THEN SqNaN ELSE LET k == GCD(n, d) IN <<n \div k, d \div k>>

SqOne == <<1, 1>>

SqLess(a, b) == a # SqNaN /\ b # SqNaN /\ a[1] * b[2] < b[1] * a[2]

SqMul(a, b) == IF a = SqNaN \/ b = SqNaN THEN SqNaN ELSE Sq(a[1] * b[1], a[2] * b[2])

SqMax(a, b) == IF a = SqNaN \/ b = SqNaN THEN SqNaN ELSE IF SqLess(a, b) THEN b ELSE a

SqMin(a, b) == IF a = SqNaN \/ b = SqNaN THEN SqNaN ELSE IF SqLess(b, a) THEN b ELSE a

\* 0.6, 0.7 and 1.6 as squares: 9/25, 49/100, 64/25.
Sq06 == <<9, 25>>

Sq07 == <<49, 100>>

Sq16 == <<64, 25>>

\* parseFloat(dataset.scale) || 1
ParseScale(s) == IF s = SqNaN \/ s[1] = 0 THEN SqOne ELSE s

----------------------------------------------------------------------------
(* part_003: the callbacks createWindow hands to attachWindowGestures *)

Slot_onPinch(wm, e, scale) ==
  LET rec == wm.els[e]
      base == IF rec.pinchActive THEN rec.pinchBaseScale ELSE ParseScale(rec.scale)
      clamped == SqMin(Sq16, SqMax(Sq07, SqMul(base, scale)))
  IN [wm EXCEPT !.els[e] = updatePosition(
        [rec EXCEPT !.pinchActive = TRUE, !.pinchBaseScale = base, !.scale = clamped],
        OrDefault(rec.x, 0), OrDefault(rec.y, 0))]

Slot_onPinchEnd(wm, e) ==
  persistWindow([wm EXCEPT !.els[e] = updatePosition([@ EXCEPT !.pinchActive = FALSE],
                                                       OrDefault(@.x, 0), OrDefault(@.y, 0))], e)

Slot_onLongPress(wm, e) ==
  persistWindow([wm EXCEPT !.els[e].dstate = IF @ = "minimized" THEN "normal" ELSE "minimized"], e)

----------------------------------------------------------------------------
(* src/js/gestures.js *)

MOVE_THRESHOLD == 8

SWIPE_THRESHOLD == 60

ResizeMinWidth == 280

ResizeMinHeight == 220

\* The closure variables of attachWindowGestures(windowEl, callbacks); el is
\* windowEl, pointers the Map in insertion order, "" the null mode, an empty
\* sequence a null pending update; downs counts the pointerdown events so far;
\* listening tells whether the four pointer listeners are still on windowEl.
NewGestures(e, rec) ==
  [el |-> e, listening |-> TRUE, pointers |-> << >>, mode |-> "", longPressTimer |-> FALSE,
   pinchInitialDistance |-> 0, pinchLastScale |-> SqOne,
   startWindowX |-> OrDefault(rec.x, 0), startWindowY |-> OrDefault(rec.y, 0),
   startWidth |-> rec.w, startHeight |-> rec.h,
   frameRequested |-> FALSE, pendingDrag |-> << >>, pendingResize |-> << >>,
   pendingPinch |-> << >>, downs |-> 0]

NoGestures == NewGestures(0, [x |-> 0, y |-> 0, w |-> 0, h |-> 0])

\* The square of distance(a, b).
distance2(ax, ay, bx, by) == (bx - ax) * (bx - ax) + (by - ay) * (by - ay)

RECURSIVE SumDx(_)
SumDx(ps) == IF ps = << >> THEN 0 ELSE (Head(ps).x - Head(ps).startX) + SumDx(Tail(ps))

RECURSIVE SumDy(_)
SumDy(ps) == IF ps = << >> THEN 0 ELSE (Head(ps).y - Head(ps).startY) + SumDy(Tail(ps))

\* averageDelta: dx = sx / n and dy = sy / n.
averageDelta(ps) == [sx |-> SumDx(ps), sy |-> SumDy(ps), n |-> Len(ps)]

Abs(v) == IF v < 0 THEN 0 - v ELSE v

\* detectThreeFingerSwipe's test `absX < 60 && absY < 60` on the average.
BelowSwipe(avg) ==
  Abs(avg.sx) < SWIPE_THRESHOLD * avg.n /\ Abs(avg.sy) < SWIPE_THRESHOLD * avg.n

\* absX > absY ? (dx > 0 ? 'right' : 'left') : dy > 0 ? 'down' : 'up'
swipeDirection(avg) ==
  IF Abs(avg.sx) > Abs(avg.sy)
  THEN (IF avg.sx > 0 THEN "right" ELSE "left")
  ELSE (IF avg.sy > 0 THEN "down" ELSE "up")

\* The state a handler works on: the window manager, the recognizer and the
\* callbacks invoked so far in this step.  captureOk tells whether the
\* element's pointer-capture methods succeed during the step.
ST == [wm |-> WM, g |-> recog, calls |-> << >>, capture |-> << >>, captureOk |-> TRUE]

\* try { windowEl.setPointerCapture(id) } catch (error) {} and the same for
\* releasePointerCapture: a call that throws is caught and leaves a "caught"
\* entry, the handler goes on.
setPointerCapture(st, id) ==
  [st EXCEPT !.capture = Append(@, [op |-> IF st.captureOk THEN "set" ELSE "caught", id |-> id])]

releasePointerCapture(st, id) ==
  [st EXCEPT !.capture = Append(@, [op |-> IF st.captureOk THEN "release" ELSE "caught", id |-> id])]

Emit(st, cb, a, b, dir) ==
  [st EXCEPT !.calls = Append(@, [cb |-> cb, a |-> a, b |-> b, dir |-> dir])]

CallOnDrag(st, pos) ==
  Emit([st EXCEPT !.wm = Slot_onDrag(@, st.g.el, pos)], "onDrag", pos[1], pos[2], "")

CallOnDragEnd(st) ==
  Emit([st EXCEPT !.wm = Slot_onDragEnd(@, st.g.el)], "onDragEnd", 0, 0, "")

CallOnResize(st, dim) ==
  Emit([st EXCEPT !.wm = Slot_onResize(@, st.g.el, dim)], "onResize", dim[1], dim[2], "")

CallOnResizeEnd(st) ==
  Emit([st EXCEPT !.wm = Slot_onResizeEnd(@, st.g.el)], "onResizeEnd", 0, 0, "")

CallOnPinch(st, scale) ==
  Emit([st EXCEPT !.wm = Slot_onPinch(@, st.g.el, scale)], "onPinch", scale[1], scale[2], "")

CallOnPinchEnd(st) ==
  Emit([st EXCEPT !.wm = Slot_onPinchEnd(@, st.g.el)], "onPinchEnd", 0, 0, "")

CallOnLongPress(st) ==
  Emit([st EXCEPT !.wm = Slot_onLongPress(@, st.g.el)], "onLongPress", 0, 0, "")

\* part_003's onThreeFingerSwipe dispatches 'window:swipe', which app.js
\* handles before dispatchEvent returns.
CallOnThreeFingerSwipe(st, dir) ==
  Emit([st EXCEPT !.wm = onWindowSwipe(@, dir)], "onThreeFingerSwipe", 0, 0, dir)

clearLongPress(st) == [st EXCEPT !.g.longPressTimer = FALSE]

startLongPress(st) == [clearLongPress(st) EXCEPT !.g.longPressTimer = TRUE]

scheduleFrame(st) == [st EXCEPT !.g.frameRequested = TRUE]

reset(st) ==
  LET prevMode == st.g.mode
      st1 == [clearLongPress(st) EXCEPT !.g.pointers = << >>, !.g.mode = "",
                                        !.g.pinchInitialDistance = 0,
                                        !.g.pinchLastScale = SqOne]
  IN IF prevMode = "drag" THEN CallOnDragEnd(st1)
     ELSE IF prevMode = "resize" THEN CallOnResizeEnd(st1)
     ELSE IF prevMode = "pinch" THEN CallOnPinchEnd(st1)
     ELSE st1

Index(ps, id) == CHOOSE i \in 1..Len(ps) : ps[i].id = id

Has(ps, id) == \E i \in 1..Len(ps) : ps[i].id = id

Remove(ps, id) == SelectSeq(ps, LAMBDA q : q.id # id)

\* onPointerDown for a primary-button pointerdown at pos on the drag handle
\* (target "header") or on the resize handle (target "handle").
onPointerDown(st, id, pos, target) ==
  LET rec == st.wm.els[st.g.el]
      st1 == [st EXCEPT
                !.g.mode = IF target = "handle" THEN "resize" ELSE "drag",
                !.g.pointers = Append(@, [id |-> id, startX |-> pos[1], startY |-> pos[2],
                                          x |-> pos[1], y |-> pos[2]]),
                !.g.startWindowX = OrDefault(rec.x, 0),
                !.g.startWindowY = OrDefault(rec.y, 0),
                !.g.startWidth = rec.w,
                !.g.startHeight = rec.h]
  IN startLongPress(setPointerCapture(st1, id))

\* Mutant of onPointerMove: the drag position is taken from the previous
\* sample instead of the pointer's start.
onPointerMove_fromPrevious(st, id, pos) ==
  LET i == Index(st.g.pointers, id)
      old == st.g.pointers[i]
  IN scheduleFrame([st EXCEPT !.g.pointers[i].x = pos[1], !.g.pointers[i].y = pos[2],
                              !.g.pendingDrag = << <<st.g.startWindowX + (pos[1] - old.x),
                                                     st.g.startWindowY + (pos[2] - old.y)>> >>])

onPointerMove(st, id, pos) ==
  IF ~Has(st.g.pointers, id) THEN st
  ELSE
  LET i == Index(st.g.pointers, id)
      st1 == [st EXCEPT !.g.pointers[i].x = pos[1], !.g.pointers[i].y = pos[2]]
      ptr == st1.g.pointers[i]
      moved2 == distance2(ptr.x, ptr.y, ptr.startX, ptr.startY)
      st2 == IF moved2 > MOVE_THRESHOLD * MOVE_THRESHOLD THEN clearLongPress(st1) ELSE st1
      n == Len(st2.g.pointers)
      dx == ptr.x - ptr.startX
      dy == ptr.y - ptr.startY
  IN IF n = 1 /\ st2.g.mode = "drag"
     THEN scheduleFrame([st2 EXCEPT !.g.pendingDrag =
                           << <<st2.g.startWindowX + dx, st2.g.startWindowY + dy>> >>])
     ELSE IF n = 1 /\ st2.g.mode = "resize"
     THEN scheduleFrame([st2 EXCEPT !.g.pendingResize =
                           << <<MathMax(ResizeMinWidth, st2.g.startWidth + dx),
                                MathMax(ResizeMinHeight, st2.g.startHeight + dy)>> >>])
     ELSE IF n = 2
     THEN LET st3 == clearLongPress(st2)
              first == st3.g.pointers[1]
              second == st3.g.pointers[2]
              dist == distance2(first.x, first.y, second.x, second.y)
              init == IF st3.g.pinchInitialDistance = 0 THEN dist
                      ELSE st3.g.pinchInitialDistance
              \* dist / init: 0 / 0 is NaN and x / 0 is Infinity, which
              \* Math.min brings down to 1.6
              scale == IF init = 0 THEN SqNaN
                       ELSE SqMin(SqMax(Sq(dist, init), Sq06), Sq16)
          IN scheduleFrame([st3 EXCEPT !.g.pinchInitialDistance = init,
                                       !.g.pinchLastScale = scale,
                                       !.g.mode = "pinch",
                                       !.g.pendingPinch = << scale >>])
     ELSE st2

detectThreeFingerSwipe(st) ==
  IF Len(st.g.pointers) # 3 THEN st
  ELSE IF st.g.mode # "" /\ st.g.mode # "swipe3" THEN st
  ELSE LET st1 == [st EXCEPT !.g.mode = "swipe3"]
           avg == averageDelta(st1.g.pointers)
       IN IF BelowSwipe(avg) THEN st1
          ELSE reset(CallOnThreeFingerSwipe(st1, swipeDirection(avg)))

handlePointerMove(st, id, pos) == detectThreeFingerSwipe(onPointerMove(st, id, pos))

onPointerUp(st, id) ==
  IF ~Has(st.g.pointers, id) THEN st
  ELSE
  LET st1 == releasePointerCapture(clearLongPress([st EXCEPT !.g.pointers = Remove(@, id)]), id)
      empty == st1.g.pointers = << >>
      st2 == IF st1.g.mode = "drag" /\ empty /\ st1.g.pendingDrag # << >>
             THEN [CallOnDragEnd(CallOnDrag(st1, st1.g.pendingDrag[1]))
                     EXCEPT !.g.pendingDrag = << >>]
             ELSE st1
      st3 == IF st2.g.mode = "resize" /\ empty /\ st2.g.pendingResize # << >>
             THEN [CallOnResizeEnd(CallOnResize(st2, st2.g.pendingResize[1]))
                     EXCEPT !.g.pendingResize = << >>]
             ELSE st2
      st4 == IF empty /\ st3.g.pinchLastScale # SqOne THEN CallOnPinchEnd(st3) ELSE st3
  IN IF empty
     THEN [st4 EXCEPT !.g.mode = "", !.g.pinchInitialDistance = 0, !.g.pinchLastScale = SqOne]
     ELSE st4

onPointerCancel(st, id) ==
  LET st1 == clearLongPress([st EXCEPT !.g.pointers = Remove(@, id)])
  IN IF st1.g.pointers = << >> THEN reset(st1) ELSE st1

\* The requestAnimationFrame callback of scheduleFrame.
onFrame(st) ==
  LET st0 == [st EXCEPT !.g.frameRequested = FALSE]
      st1 == IF st0.g.pendingDrag # << >>
             THEN [CallOnDrag(st0, st0.g.pendingDrag[1]) EXCEPT !.g.pendingDrag = << >>]
             ELSE st0
      st2 == IF st1.g.pendingResize # << >>
             THEN [CallOnResize(st1, st1.g.pendingResize[1]) EXCEPT !.g.pendingResize = << >>]
             ELSE st1
  IN IF st2.g.pendingPinch # << >>
     THEN [CallOnPinch(st2, st2.g.pendingPinch[1]) EXCEPT !.g.pendingPinch = << >>]
     ELSE st2

\* The setTimeout callback of startLongPress.
onLongPressTimer(st) == clearLongPress(CallOnLongPress(st))

\* The function attachWindowGestures returns: it removes the four listeners.
cleanup(st) == [st EXCEPT !.g.listening = FALSE]

----------------------------------------------------------------------------
(* The message store: src/js/db.js and the two db modules of part_000 *)

DbJs == "js/db.js"
PartA == "part_000:1-200"
PartB == "part_000:203-404"

ConvIds == {"c1", "c2"}

\* A value JSON.parse can return, as far as the store looks at it:
\* type is "null", "number", "array" or "object"; hasConvs says that
\* .conversations is an array; msgs is "map", "null" or "missing".
JsonValue(type, hasConvs, conversations, msgs, messages) ==
  [type |-> type, hasConvs |-> hasConvs, conversations |-> conversations,
   msgs |-> msgs, messages |-> messages]

NoMessages == [c \in {} |-> << >>]

JsonNull == JsonValue("null", FALSE, << >>, "missing", NoMessages)

Json5 == JsonValue("number", FALSE, << >>, "missing", NoMessages)

JsonArray == JsonValue("array", FALSE, << >>, "missing", NoMessages)

JsonEmptyObject == JsonValue("object", FALSE, << >>, "missing", NoMessages)

JsonNullMessages == JsonValue("object", TRUE, << >>, "null", NoMessages)

Message(n, outgoing) == [n |-> n, outgoing |-> outgoing]

SeedUnread == 2

seedData ==
  JsonValue("object", TRUE,
            << [id |-> "c1", unread |-> SeedUnread], [id |-> "c2", unread |-> 0] >>,
            "map",
            [c \in ConvIds |-> IF c = "c1" THEN << Message(1, FALSE), Message(2, TRUE) >>
                                            ELSE << Message(1, FALSE) >>])

\* A well-formed database somebody exported earlier.
ImportedDb ==
  JsonValue("object", TRUE, << [id |-> "c2", unread |-> 0] >>, "map",
            [c \in {"c2"} |-> << Message(1, TRUE) >>])

WellFormed(v) == v.type = "object" /\ v.hasConvs /\ v.msgs = "map"

\* !value
Falsy(v) == v.type = "null"

NoCall == [op |-> "", conv |-> "", limit |-> Undefined, offset |-> Undefined]

NoRet == [threw |-> FALSE, msgs |-> << >>, convs |-> {}, db |-> JsonNull]

NoDb == [impl |-> "", stored |-> JsonNull, call |-> NoCall, ret |-> NoRet]

Returns(d, field, v) == [d EXCEPT !.ret = [NoRet EXCEPT ![field] = v]]

Throws(d) == [d EXCEPT !.ret = [NoRet EXCEPT !.threw = TRUE]]

\* Array.prototype.slice(start, end) on a sequence; end = Undefined is "to the end".
RelativeIndex(i, len) == IF i < 0 THEN (IF len + i < 0 THEN 0 ELSE len + i)
                                  ELSE (IF i > len THEN len ELSE i)

slice(s, start, end) ==
  LET from == RelativeIndex(start, Len(s))
      to   == IF end = Undefined THEN Len(s) ELSE RelativeIndex(end, Len(s))
  IN SubSeq(s, from + 1, to)

\* readDb() / loadDb(): the stored text parsed; a missing or unparsable entry is null.
readDb(d) ==
  IF d.impl = PartB /\ d.stored.type \notin {"object", "array"} THEN JsonNull ELSE d.stored

\* ensureDb() of part_000, getDb() of db.js: a falsy read is replaced by the
\* seed, which is written back.
ensureDb(d) == IF Falsy(readDb(d)) THEN [d EXCEPT !.stored = seedData] ELSE d

find(conversations, c) == { i \in 1..Len(conversations) : conversations[i].id = c }

getConversations(d0) ==
  LET d == ensureDb(d0)
  IN IF ~d.stored.hasConvs THEN Throws(d)          \* [...undefined], undefined.slice()
     ELSE Returns(d, "convs", { d.stored.conversations[i] : i \in DOMAIN d.stored.conversations })

exportJson(d0) == LET d == ensureDb(d0) IN Returns(d, "db", d.stored)

\* db.messages[convId] || []
MessagesOf(v, c) == IF c \in DOMAIN v.messages THEN v.messages[c] ELSE << >>

DefaultLimitJs == 50

DefaultLimitB == 200

DbJs_getMessages(d0, convId, opts) ==
  LET d     == ensureDb(d0)
      limit == Coalesce(opts.limit, DefaultLimitJs)
  IN IF d.stored.msgs # "map" THEN Throws(d)
     ELSE Returns(d, "msgs", slice(MessagesOf(d.stored, convId), 0 - limit, Undefined))

PartB_getMessages(d0, convId, opts) ==
  LET d      == ensureDb(d0)
      limit  == Coalesce(opts.limit, DefaultLimitB)
      offset == Coalesce(opts.offset, 0)
      all    == MessagesOf(d.stored, convId)
      start  == IF Len(all) - limit - offset < 0 THEN 0 ELSE Len(all) - limit - offset
  IN IF d.stored.msgs # "map" THEN Throws(d)
     ELSE Returns(d, "msgs", slice(all, start, Len(all) - offset))

PartA_getMessages(d0, convId) ==
  LET d == ensureDb(d0)
  IN IF d.stored.msgs # "map" THEN Throws(d)
     ELSE Returns(d, "msgs", MessagesOf(d.stored, convId))

getMessages(d, convId, opts) ==
  CASE d.impl = DbJs  -> DbJs_getMessages(d, convId, opts)
    [] d.impl = PartB -> PartB_getMessages(d, convId, opts)
    [] OTHER          -> PartA_getMessages(d, convId)

\* The message objects the callers pass: one of the user's own (the author the
\* source spells in Cyrillic is "You" here), one of somebody else's.
OwnMessage == [author |-> "You", outgoing |-> TRUE]

OtherMessage == [author |-> "Sveta", outgoing |-> FALSE]

\* list.push(entry); conversation.unread / unreadCount is set to `unread`.
Saved(d, convId, outgoing, unread) ==
  LET v    == d.stored
      list == MessagesOf(v, convId)
      at   == find(v.conversations, convId)
  IN [v EXCEPT !.messages = Put(v.messages, convId, Append(list, Message(Len(list) + 1, outgoing))),
               !.conversations = [i \in DOMAIN v.conversations |->
                                    IF i \in at /\ \A j \in at : i <= j
                                    THEN [v.conversations[i] EXCEPT !.unread = unread[v.conversations[i].unread]]
                                    ELSE v.conversations[i]]]

\* (conversation.unread || 0) + 1, the counter left alone, conversation.unreadCount = 0
Incremented == [unread \in Nat |-> unread + 1]

Kept == [unread \in Nat |-> unread]

Zeroed == [unread \in Nat |-> 0]

DbJs_saveMessage(d0, convId, message) ==
  LET d == ensureDb(d0)
  IN IF d.stored.msgs # "map" \/ ~d.stored.hasConvs THEN Throws(d)   \* before writeDb
     ELSE LET v == IF message.author # "You"      \* db.js tells own messages by the author
                   THEN Saved(d, convId, FALSE, Incremented)
                   ELSE Saved(d, convId, TRUE, Kept)
          IN Returns([d EXCEPT !.stored = v], "db", v)

PartB_saveMessage(d0, convId, message) ==
  LET d == ensureDb(d0)
  IN IF d.stored.msgs # "map" \/ ~d.stored.hasConvs THEN Throws(d)
     ELSE LET v == IF ~message.outgoing
                   THEN Saved(d, convId, message.outgoing, Incremented)
                   ELSE Saved(d, convId, message.outgoing, Kept)
          IN Returns([d EXCEPT !.stored = v], "msgs", << v.messages[convId][Len(v.messages[convId])] >>)

PartA_saveMessage(d0, convId, message) ==
  LET d == ensureDb(d0)
  IN IF d.stored.msgs # "map" \/ ~d.stored.hasConvs THEN Throws(d)
     ELSE LET v == Saved(d, convId, message.outgoing # FALSE, Zeroed)
          IN Returns([d EXCEPT !.stored = v], "msgs", << v.messages[convId][Len(v.messages[convId])] >>)

saveMessage(d, convId, message) ==
  CASE d.impl = DbJs  -> DbJs_saveMessage(d, convId, message)
    [] d.impl = PartB -> PartB_saveMessage(d, convId, message)
    [] OTHER          -> PartA_saveMessage(d, convId, message)

markRead(d0, convId) ==
  LET d == ensureDb(d0)
      v == d.stored
  IN IF ~v.hasConvs THEN Throws(d)
     ELSE LET w == [v EXCEPT !.conversations =
                       [i \in DOMAIN v.conversations |->
                          IF i \in find(v.conversations, convId) /\ \A j \in find(v.conversations, convId) : i <= j
                          THEN [v.conversations[i] EXCEPT !.unread = 0]
                          ELSE v.conversations[i]]]
          IN [d EXCEPT !.stored = w, !.ret = NoRet]

\* The texts somebody can paste into the import field, by what JSON.parse makes of them.
Unparsable == [parses |-> FALSE, value |-> JsonNull]

Parsed(v) == [parses |-> TRUE, value |-> v]

JsonTexts ==
  {Unparsable} \cup
  { Parsed(v) : v \in {JsonNull, Json5, JsonArray, JsonEmptyObject, JsonNullMessages, ImportedDb} }

DbJs_importJson(d, json) ==
  IF ~json.parses THEN Throws(d)
  ELSE Returns([d EXCEPT !.stored = json.value], "db", json.value)

PartA_importJson(d, json) ==
  IF ~json.parses THEN Throws(d)
  ELSE IF Falsy(json.value) \/ json.value.type \notin {"object", "array"} THEN Throws(d)
  ELSE Returns([d EXCEPT !.stored = json.value], "db", json.value)

PartB_importJson(d, json) ==
  IF ~json.parses THEN Throws(d)
  ELSE IF Falsy(json.value) \/ json.value.type \notin {"object", "array"} THEN Throws(d)
  ELSE IF ~json.value.hasConvs \/ json.value.msgs = "missing" THEN Throws(d)
  ELSE Returns([d EXCEPT !.stored = json.value], "db", json.value)

importJson(d, json) ==
  CASE d.impl = DbJs  -> DbJs_importJson(d, json)
    [] d.impl = PartB -> PartB_importJson(d, json)
    [] OTHER          -> PartA_importJson(d, json)

----------------------------------------------------------------------------
(* The StateManager's screen history: part_001 and part_002 *)

Nav1 == "part_001"
Nav2 == "part_002"

Screens == {"splash", "home", "pay"}

\* part_001 has no currentScreen in its state.
NoScreen == "undefined"

\* The state the constructor builds.
NewNav(m) ==
  IF m = Nav2 THEN [impl |-> Nav2, history |-> << "splash" >>, currentScreen |-> "splash"]
              ELSE [impl |-> Nav1, history |-> << >>, currentScreen |-> NoScreen]

\* array.at(-1)
AtLast(h) == IF h = << >> THEN NoScreen ELSE h[Len(h)]

HistoryCap == 20

Nav1_pushHistory(n, screenId) ==
  [n EXCEPT !.history = slice(Append(n.history, screenId), 0 - HistoryCap, Undefined)]

Nav1_popHistory(n) ==
  [n EXCEPT !.history = IF n.history = << >> THEN << >>
                        ELSE SubSeq(n.history, 1, Len(n.history) - 1)]     \* history.pop()

Nav2_pushHistory(n, screen) ==
  IF AtLast(n.history) = screen THEN [n EXCEPT !.currentScreen = screen]
  ELSE [n EXCEPT !.history = Append(n.history, screen), !.currentScreen = screen]

Nav2_popHistory(n) ==
  IF Len(n.history) > 1
  THEN [n EXCEPT !.history = slice(n.history, 0, 0 - 1),
                 !.currentScreen = AtLast(slice(n.history, 0, 0 - 1))]
  ELSE n

pushHistory(n, screen) ==
  IF n.impl = Nav2 THEN Nav2_pushHistory(n, screen) ELSE Nav1_pushHistory(n, screen)

popHistory(n) == IF n.impl = Nav2 THEN Nav2_popHistory(n) ELSE Nav1_popHistory(n)

----------------------------------------------------------------------------
(* src/sw.js: the service worker *)

Response(status, type) == [status |-> status, type |-> type]

StatusOk == 200

Ok == Response(StatusOk, "basic")

NotFound == Response(404, "basic")

\* A cross-origin response fetched without CORS.
Opaque == Response(0, "opaque")

\* respondWith(undefined), or a fetch that was rejected.
NoResponse == Response(0, "error")

Responses == {Ok, NotFound, Opaque}

\* What fetch(request) can do: resolve with a response, or reject.
NetworkOutcomes == Responses \cup {NoResponse}

CORE_ASSETS == {"/index.html", "/js/app.js"}

Urls == CORE_ASSETS \cup {"/api/feed"}

NoRequest == [method |-> "", url |-> ""]

Answer(from, response) == [from |-> from, response |-> response]

NoAnswer == Answer("", NoResponse)

\* caches.match(request)
CacheMatch(w, url) == IF url \in DOMAIN w.cache THEN w.cache[url] ELSE NoResponse

\* The worker once 'install' and 'activate' have run: cache.addAll stored
\* every core asset (it rejects, and the worker is discarded, otherwise).
Installed ==
  [cache |-> [u \in CORE_ASSETS |-> Ok], pending |-> [u \in Urls |-> 0],
   request |-> NoRequest, answer |-> NoAnswer]

\* The 'fetch' listener up to the response it hands to respondWith; `outcome`
\* is what the network does with fetch(event.request) when nothing is cached.
onFetch(w0, method, url, outcome) ==
  LET w == [w0 EXCEPT !.request = [method |-> method, url |-> url]]
  IN IF method # "GET" THEN [w EXCEPT !.answer = Answer("network", outcome)]
     ELSE IF url \in DOMAIN w.cache
     THEN [w EXCEPT !.pending[url] = @ + 1,                  \* fetch(event.request) started
                    !.answer = Answer("cache", w.cache[url])]
     ELSE IF outcome = NoResponse
     THEN [w EXCEPT !.answer = Answer("fallback", CacheMatch(w, "/index.html"))]
     ELSE IF outcome.status # StatusOk \/ outcome.type # "basic"
     THEN [w EXCEPT !.answer = Answer("network", outcome)]
     ELSE [w EXCEPT !.cache = Put(w.cache, url, outcome),
                    !.answer = Answer("network", outcome)]

\* The fetch started for a cached URL settles: a response is put into the
\* cache, a rejection is dropped.
onRevalidated(w, url, outcome) ==
  IF outcome = NoResponse THEN [w EXCEPT !.pending[url] = @ - 1]
  ELSE [w EXCEPT !.pending[url] = @ - 1, !.cache = Put(w.cache, url, outcome)]

----------------------------------------------------------------------------
(* The parts of the app a page of windows does not touch *)

NoNav == [impl |-> "", history |-> << >>, currentScreen |-> ""]

NoSw == [cache |-> [u \in {} |-> Ok], pending |-> [u \in {} |-> 0], request |-> NoRequest, answer |-> NoAnswer]

AppIdle == dbs = NoDb /\ nav = NoNav /\ sw = NoSw

----------------------------------------------------------------------------
(* The page with one of the two window managers loaded *)

GridSavedEntry == [x |-> 48, y |-> 72, w |-> 240, h |-> 192]

SlotSavedEntry ==
  [x |-> 16, y |-> 140, width |-> 320, height |-> 420, slot |-> "left",
   state |-> "normal", scale |-> <<1, 1>>]

NoLayout == [i \in {} |-> 0]

\* What readState() / loadState() can find in localStorage at page load.
SavedInits(m) ==
  { NoLayout, [i \in {"chat"} |-> IF m = GridWM THEN GridSavedEntry ELSE SlotSavedEntry] }

Init ==
  /\ impl \in {GridWM, SlotWM}
  /\ animeLoaded \in BOOLEAN
  /\ viewport \in Viewports
  /\ windows = [i \in {} |-> 0]
  /\ els = [e \in {} |-> 0]
  /\ zCursor = ZStart
  /\ saved \in SavedInits(impl)
  /\ closing = [e \in {} |-> 0]
  /\ sessions = [e \in {} |-> 0]
  /\ raf = NoRaf
  /\ recog = NoGestures
  /\ calls = << >>
  /\ capture = << >>
  /\ last = [op |-> "load", id |-> ""]
  /\ AppIdle

\* A window-manager handler leaves the recognizer alone and invokes none of
\* its callbacks.
GSame == recog' = recog /\ calls' = << >> /\ capture' = << >>

Env == UNCHANGED <<impl, animeLoaded, viewport, appVars>> /\ GSame

CanFocus(n) == zCursor + n <= ZStart + MaxFocus

Attached == {e \in DOMAIN els : els[e].attached}

Gestured == {e \in Attached : els[e].id \in GeoIds}

createWindow(id, d) ==
  /\ CanFocus(1)
  /\ id \in DOMAIN windows \/ Cardinality(DOMAIN els) < MaxElems
  /\ LET r == IF impl = GridWM THEN Grid_createWindow(WM, id, d) ELSE Slot_createWindow(WM, id, d)
     IN /\ SetWM(r)
        /\ last' = [op |-> IF r.threw THEN "createWindow:throws" ELSE "createWindow", id |-> id]
  /\ Env

focusWindow(id) ==
  /\ CanFocus(1)
  /\ SetWM(IF impl = GridWM THEN Grid_focusWindow(WM, id) ELSE Slot_focusWindow(WM, id))
  /\ last' = [op |-> "focusWindow", id |-> id]
  /\ Env

closeWindow(id) ==
  /\ id \in DOMAIN windows => closing[windows[id]] < MaxPendingClose
  /\ SetWM(IF impl = GridWM THEN Grid_closeWindow(WM, id) ELSE Slot_closeWindow(WM, id))
  /\ last' = [op |-> "closeWindow", id |-> id]
  /\ Env

closeComplete(e) ==
  /\ closing[e] > 0
  /\ SetWM(IF impl = GridWM THEN Grid_closeComplete(WM, e) ELSE Slot_closeComplete(WM, e))
  /\ last' = [op |-> "closeComplete", id |-> els[e].id]
  /\ Env

setWindowSize(id, sz) ==
  /\ SetWM(IF impl = GridWM THEN Grid_setWindowSize(WM, id, sz[1], sz[2])
                            ELSE Slot_setWindowSize(WM, id, sz[1], sz[2]))
  /\ last' = [op |-> "setWindowSize", id |-> id]
  /\ Env

startDrag(e, p) ==
  /\ impl = GridWM
  /\ CanFocus(1)
  /\ Len(sessions[e]) < MaxSessions
  /\ SetWM(Grid_startDrag(WM, e, p))
  /\ last' = [op |-> "startDrag", id |-> els[e].id]
  /\ Env

startResize(e, p) ==
  /\ impl = GridWM
  /\ CanFocus(1)
  /\ Len(sessions[e]) < MaxSessions
  /\ SetWM(Grid_startResize(WM, e, p))
  /\ last' = [op |-> "startResize", id |-> els[e].id]
  /\ Env

pointerMove(e, k, p) ==
  /\ impl = GridWM
  /\ SetWM(Grid_pointerMove(WM, e, k, p))
  /\ last' = [op |-> "pointerMove", id |-> els[e].id]
  /\ Env

pointerUp(e) ==
  /\ impl = GridWM
  /\ sessions[e] # << >>
  /\ SetWM(Grid_pointerUp(WM, e))
  /\ last' = [op |-> "pointerUp", id |-> els[e].id]
  /\ Env

\* The browser window is resized to v; only windows.js listens.
onResize(v) ==
  /\ v # viewport
  /\ viewport' = v
  /\ SetWM(IF impl = GridWM THEN Grid_onResize(WM) ELSE WM)
  /\ last' = [op |-> "resize", id |-> ""]
  /\ UNCHANGED <<impl, animeLoaded, appVars>>
  /\ GSame

\* part_003: the element's two pointerdown listeners both call focusWindow.
pointerDownFocus(e) ==
  /\ impl = SlotWM
  /\ CanFocus(2)
  /\ SetWM(Slot_focusWindow(Slot_focusWindow(WM, els[e].id), els[e].id))
  /\ last' = [op |-> "pointerdown", id |-> els[e].id]
  /\ Env

cbDrag(e, pos) ==
  /\ impl = SlotWM
  /\ SetWM(Slot_onDrag(WM, e, pos))
  /\ last' = [op |-> "onDrag", id |-> els[e].id]
  /\ Env

cbDragEnd(e) ==
  /\ impl = SlotWM
  /\ SetWM(Slot_onDragEnd(WM, e))
  /\ last' = [op |-> "onDragEnd", id |-> els[e].id]
  /\ Env

cbResize(e, dim) ==
  /\ impl = SlotWM
  /\ SetWM(Slot_onResize(WM, e, dim))
  /\ last' = [op |-> "onResize", id |-> els[e].id]
  /\ Env

cbResizeEnd(e) ==
  /\ impl = SlotWM
  /\ SetWM(Slot_onResizeEnd(WM, e))
  /\ last' = [op |-> "onResizeEnd", id |-> els[e].id]
  /\ Env

\* The header's double click and the maximize button.
toggleMaximize(e) ==
  /\ impl = GridWM
  /\ e \in {windows[i] : i \in DOMAIN windows}
  /\ SetWM(Grid_toggleMaximize(WM, e))
  /\ last' = [op |-> "toggleMaximize", id |-> els[e].id]
  /\ Env

\* The minimize button (silent = false) and the three-finger swipe down
\* (silent = true).
minimizeWindow(id, silent) ==
  /\ impl = GridWM
  /\ SetWM(Grid_minimizeWindow(WM, id, silent))
  /\ last' = [op |-> "minimizeWindow", id |-> id]
  /\ Env

animationFrame ==
  /\ impl = GridWM
  /\ raf # NoRaf
  /\ SetWM(Grid_animationFrame(WM))
  /\ last' = [op |-> "animationFrame", id |-> ""]
  /\ Env

\* The recognizer delivers a pinch update, or the end of a pinch.
cbPinch(e, scale) ==
  /\ SetWM(IF impl = GridWM THEN Grid_onPinch(WM, e, [scale |-> scale])
           ELSE Slot_onPinch(WM, e, scale))
  /\ last' = [op |-> "onPinch", id |-> els[e].id]
  /\ Env

cbPinchEnd(e) ==
  /\ impl = SlotWM
  /\ SetWM(Slot_onPinchEnd(WM, e))
  /\ last' = [op |-> "onPinchEnd", id |-> els[e].id]
  /\ Env

\* Window lifecycle and focus, over every window id.
Next ==
  \/ \E id \in Ids, d \in Descriptors : createWindow(id, d)
  \/ \E id \in Ids : focusWindow(id)
  \/ \E id \in Ids : closeWindow(id)
  \/ \E e \in DOMAIN els : closeComplete(e)
  \/ \E e \in Attached : pointerDownFocus(e)

Spec == Init /\ [][Next]_vars

\* Moving a window: header drags (windows.js), the recognizer's drag callbacks
\* (part_003) and browser resizes, on the windows of GeoIds.
NextDrag ==
  \/ \E id \in GeoIds, d \in Descriptors : createWindow(id, d)
  \/ \E e \in Gestured, p \in DragDown : startDrag(e, p)
  \/ \E e \in Gestured, p \in MovePts : \E k \in 1..Len(sessions[e]) : pointerMove(e, k, p)
  \/ \E e \in Gestured : pointerUp(e)
  \/ \E v \in Viewports : onResize(v)
  \/ \E e \in Gestured, pos \in DragPos : cbDrag(e, pos)
  \/ \E e \in Gestured : cbDragEnd(e)
  \/ animationFrame

SpecDrag == Init /\ [][NextDrag]_vars

\* Sizing a window: the resize handle (windows.js), the recognizer's resize
\* callbacks (part_003) and setWindowSize, on the windows of GeoIds.
NextSize ==
  \/ \E id \in GeoIds, d \in Descriptors : createWindow(id, d)
  \/ \E id \in GeoIds, sz \in Sizes : setWindowSize(id, sz)
  \/ \E e \in Gestured, p \in ResizeDown : startResize(e, p)
  \/ \E e \in Gestured, p \in MovePts : \E k \in 1..Len(sessions[e]) : pointerMove(e, k, p)
  \/ \E e \in Gestured : pointerUp(e)
  \/ \E e \in Gestured, dim \in ResizeDims : cbResize(e, dim)
  \/ \E e \in Gestured : cbResizeEnd(e)
  \/ animationFrame

SpecSize == Init /\ [][NextSize]_vars

\* Scales the recognizer hands to onPinch, within the range [0.6, 1.6] it
\* clamps the ratio of distances to: 1.6, 1 and 1/1.6, whose products are
\* finitely many between the bounds the manager clamps to.
PinchScales == { Sq16, SqOne, <<25, 64>> }

\* Pinching a window: the recognizer's pinch callbacks of either manager.
NextPinch ==
  \/ \E id \in GeoIds, d \in Descriptors : createWindow(id, d)
  \/ \E e \in Gestured, sc \in PinchScales : cbPinch(e, sc)
  \/ \E e \in Gestured : cbPinchEnd(e)
  \/ animationFrame

SpecPinch == Init /\ [][NextPinch]_vars

\* The three visual modes of a windows.js window: maximize and restore, the
\* minimize toggle, and the size requests that change the geometry in between.
NextMax ==
  \/ \E id \in GeoIds, d \in Descriptors : createWindow(id, d)
  \/ \E e \in Gestured : toggleMaximize(e)
  \/ \E id \in GeoIds, silent \in BOOLEAN : minimizeWindow(id, silent)
  \/ \E id \in GeoIds, sz \in Sizes : setWindowSize(id, sz)

SpecMax == Init /\ [][NextMax]_vars

----------------------------------------------------------------------------
(* One part_003 window with its recognizer, driven by pointer events *)

MaxDowns == 3

MaxClicks == 2

\* Three touch contacts, and the mouse.
Pointers == {"t1", "t2", "t3"}

Mouse == "mouse"

Targets == {"header", "handle"}

\* Where each pointer goes down; contacts t1 and t3 land on the same spot,
\* contact t4 (used for turning a pair of contacts) 100 px below t1.
DownAt(p) ==
  IF p = "t2" THEN <<200, 100>> ELSE IF p = "t4" THEN <<100, 200>> ELSE <<100, 100>>

\* Where a pointer can be reported next, relative to where it went down.
MoveOffsets(p) ==
  IF p = Mouse THEN {<<3, 4>>, <<50, 0 - 10>>, <<0 - 30, 20>>}
  ELSE IF p = "t2" THEN {<<0, 0>>, <<100, 0>>}
  ELSE IF p = "t4" THEN {<<100, 0 - 100>>}
  ELSE {<<100, 0>>}

ChatDescriptor == [given |-> TRUE, x |-> 80, y |-> 80, w |-> 360, h |-> 320]

\* The page after createWindow({ id: 'chat', x: 80, y: 80, width: 360,
\* height: 320 }) on an empty registry.
Opened ==
  Slot_createWindow([windows |-> [i \in {} |-> 0], els |-> [e \in {} |-> 0],
                     zCursor |-> ZStartSlot, saved |-> NoLayout,
                     closing |-> [e \in {} |-> 0], sessions |-> [e \in {} |-> 0],
                     raf |-> NoRaf],
                    "chat", ChatDescriptor)

InitG ==
  /\ impl = SlotWM
  /\ animeLoaded = TRUE
  /\ viewport \in Viewports
  /\ windows = Opened.windows
  /\ els = Opened.els
  /\ zCursor = Opened.zCursor
  /\ saved = Opened.saved
  /\ closing = Opened.closing
  /\ sessions = Opened.sessions
  /\ raf = Opened.raf
  /\ recog = NewGestures(Opened.windows["chat"], Opened.els[Opened.windows["chat"]])
  /\ calls = << >>
  /\ capture = << >>
  /\ last = [op |-> "createWindow", id |-> "chat"]
  /\ AppIdle

SetST(st) == SetWM(st.wm) /\ recog' = st.g /\ calls' = st.calls /\ capture' = st.capture

\* Pointer events reach the element while it is in the document.
Listening == recog.listening /\ recog.el \in DOMAIN els /\ els[recog.el].attached

gPointerDown(p, target, cap) ==
  /\ Listening
  /\ ~Has(recog.pointers, p)
  /\ recog.downs < cap
  /\ SetST(onPointerDown([ST EXCEPT !.g.downs = @ + 1],
                         p, DownAt(p), target))
  /\ last' = [op |-> "g:pointerdown", id |-> els[recog.el].id]
  /\ UNCHANGED <<impl, animeLoaded, viewport, appVars>>

gPointerMove(p, off) ==
  /\ Listening
  /\ Has(recog.pointers, p)
  /\ SetST(handlePointerMove(ST, p, <<DownAt(p)[1] + off[1], DownAt(p)[2] + off[2]>>))
  /\ last' = [op |-> "g:pointermove", id |-> els[recog.el].id]
  /\ UNCHANGED <<impl, animeLoaded, viewport, appVars>>

gPointerUp(p) ==
  /\ Listening
  /\ Has(recog.pointers, p)
  /\ SetST(onPointerUp(ST, p))
  /\ last' = [op |-> "g:pointerup", id |-> els[recog.el].id]
  /\ UNCHANGED <<impl, animeLoaded, viewport, appVars>>

gPointerCancel(p) ==
  /\ Listening
  /\ Has(recog.pointers, p)
  /\ SetST(onPointerCancel(ST, p))
  /\ last' = [op |-> "g:pointercancel", id |-> els[recog.el].id]
  /\ UNCHANGED <<impl, animeLoaded, viewport, appVars>>

gFrame ==
  /\ recog.frameRequested
  /\ SetST(onFrame(ST))
  /\ last' = [op |-> "g:frame", id |-> els[recog.el].id]
  /\ UNCHANGED <<impl, animeLoaded, viewport, appVars>>

gLongPressTimer ==
  /\ recog.longPressTimer
  /\ SetST(onLongPressTimer(ST))
  /\ last' = [op |-> "g:longpress", id |-> els[recog.el].id]
  /\ UNCHANGED <<impl, animeLoaded, viewport, appVars>>

\* Contacts that go down, move and come up, with the frames and the timer
\* they schedule.
Contact(P, cap) ==
  \/ \E p \in P, t \in Targets : gPointerDown(p, t, cap)
  \/ \E p \in P : \E off \in MoveOffsets(p) : gPointerMove(p, off)
  \/ \E p \in P : gPointerUp(p)
  \/ gFrame
  \/ gLongPressTimer

\* The same, where the browser can also cancel a contact.
Gesture(P, cap) ==
  \/ Contact(P, cap)
  \/ \E p \in P : gPointerCancel(p)

\* Up to three touch contacts on the window.
NextG == Gesture(Pointers, MaxDowns)

SpecG == InitG /\ [][NextG]_vars

\* The mouse alone: presses, moves and releases.
NextG1 == Contact({Mouse}, MaxClicks)

SpecG1 == InitG /\ [][NextG1]_vars

\* The mouse on a window that closeWindow can close meanwhile.
NextClose ==
  \/ Gesture({Mouse}, MaxClicks)
  \/ closeWindow("chat")
  \/ \E e \in DOMAIN els : closeComplete(e)

SpecClose == InitG /\ [][NextClose]_vars

\* Two touch contacts that go down on the title bar only.
NextHeader ==
  \/ \E p \in {"t1", "t2"} : gPointerDown(p, "header", MaxDowns)
  \/ \E p \in {"t1", "t2"} : \E off \in MoveOffsets(p) : gPointerMove(p, off)
  \/ \E p \in {"t1", "t2"} : gPointerUp(p)
  \/ \E p \in {"t1", "t2"} : gPointerCancel(p)
  \/ gFrame
  \/ gLongPressTimer

SpecHeader == InitG /\ [][NextHeader]_vars

\* Two touch contacts, one below the other, that can turn about each other.
NextRot == Gesture({"t1", "t4"}, MaxClicks)

SpecRot == InitG /\ [][NextRot]_vars

\* The direction of a three-pointer displacement, as a function of where
\* the three contacts have moved to.
SwipeOffsets == {<<0, 0>>, <<70, 70>>, <<90, 30>>, <<30, 90>>, <<0 - 90, 30>>, <<0 - 80, 0 - 80>>}

Sample(p, off) ==
  [id |-> p, startX |-> DownAt(p)[1], startY |-> DownAt(p)[2],
   x |-> DownAt(p)[1] + off[1], y |-> DownAt(p)[2] + off[2]]

InitSwipe ==
  /\ impl = SlotWM
  /\ animeLoaded = TRUE
  /\ viewport \in Viewports
  /\ windows = Opened.windows
  /\ els = Opened.els
  /\ zCursor = Opened.zCursor
  /\ saved = Opened.saved
  /\ closing = Opened.closing
  /\ sessions = Opened.sessions
  /\ raf = Opened.raf
  /\ \E o1 \in SwipeOffsets, o2 \in SwipeOffsets, o3 \in SwipeOffsets :
       recog = [NewGestures(Opened.windows["chat"], Opened.els[Opened.windows["chat"]])
                  EXCEPT !.pointers = <<Sample("t1", o1), Sample("t2", o2), Sample("t3", o3)>>,
                         !.mode = "drag", !.downs = 3]
  /\ calls = << >>
  /\ capture = << >>
  /\ last = [op |-> "g:pointermove", id |-> "chat"]
  /\ AppIdle

\* averageDelta and the direction expression of detectThreeFingerSwipe,
\* applied to the three samples.
gSwipeDirection ==
  /\ last.op # "swipeDirection"
  /\ calls' = <<[cb |-> "swipeDirection", a |-> averageDelta(recog.pointers).sx,
                 b |-> averageDelta(recog.pointers).sy,
                 dir |-> swipeDirection(averageDelta(recog.pointers))]>>
  /\ last' = [op |-> "swipeDirection", id |-> "chat"]
  /\ UNCHANGED <<impl, animeLoaded, viewport, windows, els, zCursor, saved, closing,
                 sessions, raf, recog, capture, appVars>>

NextSwipe == gSwipeDirection

SpecSwipe == InitSwipe /\ [][NextSwipe]_vars

----------------------------------------------------------------------------
(* Three part_003 windows and the 'window:swipe' events of app.js *)

MaxSwipes == 3

SwipeIds == <<"chat", "repo", "files">>

Directions == {"left", "right", "up", "down"}

RECURSIVE OpenAll(_, _)
OpenAll(wm, ids) ==
  IF ids = << >> THEN wm
  ELSE OpenAll(Slot_createWindow(wm, Head(ids), ChatDescriptor), Tail(ids))

\* The page after createWindow for each of the three ids on an empty registry.
Opened3 ==
  OpenAll([windows |-> [i \in {} |-> 0], els |-> [e \in {} |-> 0],
           zCursor |-> ZStartSlot, saved |-> NoLayout,
           closing |-> [e \in {} |-> 0], sessions |-> [e \in {} |-> 0],
           raf |-> NoRaf], SwipeIds)

InitFocus ==
  /\ impl = SlotWM
  /\ animeLoaded = TRUE
  /\ viewport \in Viewports
  /\ windows = Opened3.windows
  /\ els = Opened3.els
  /\ zCursor = Opened3.zCursor
  /\ saved = Opened3.saved
  /\ closing = Opened3.closing
  /\ sessions = Opened3.sessions
  /\ raf = Opened3.raf
  /\ recog = NoGestures
  /\ calls = << >>
  /\ capture = << >>
  /\ last = [op |-> "createWindow", id |-> "files"]
  /\ AppIdle

CanSwipe == zCursor < Opened3.zCursor + MaxSwipes

\* A 'window:swipe' event reaches the listener.
windowSwipe(direction) ==
  /\ CanSwipe
  /\ SetWM(onWindowSwipe(WM, direction))
  /\ last' = [op |-> "window:swipe", id |-> direction]
  /\ Env

\* A pointerdown on a window, which focuses it.
pointerDownOn(e) ==
  /\ CanSwipe
  /\ SetWM(Slot_focusWindow(WM, els[e].id))
  /\ last' = [op |-> "pointerdown", id |-> els[e].id]
  /\ Env

NextFocus ==
  \/ \E direction \in Directions : windowSwipe(direction)
  \/ \E e \in Attached : pointerDownOn(e)
  \/ \E id \in DOMAIN windows : closeWindow(id)
  \/ \E e \in DOMAIN els : closeComplete(e)

SpecFocus == InitFocus /\ [][NextFocus]_vars

----------------------------------------------------------------------------
(* Pointer capture that fails *)

\* startDrag and startResize when element.setPointerCapture(pointerId)
\* throws: focusWindow has run, the listeners are not yet added, and the
\* exception leaves the pointerdown listener.
Grid_startThrows(wm, e) == Grid_focusWindow(wm, wm.els[e].id)

\* A pointerup on element e when element.releasePointerCapture(pointerId)
\* throws: each session's `up` stops at its first statement, so no listener
\* is removed and nothing is snapped or persisted.
Grid_pointerUpThrows(wm, e) == wm

\* The calls a step of windows.js makes on the element when the capture
\* method throws: the call, and the exception that leaves the listener.
Uncaught(op, p) == <<[op |-> op, id |-> p], [op |-> "uncaught", id |-> p]>>

startThrows(e, p) ==
  /\ impl = GridWM
  /\ CanFocus(1)
  /\ Len(sessions[e]) < MaxSessions
  /\ SetWM(Grid_startThrows(WM, e))
  /\ last' = [op |-> "startDrag", id |-> els[e].id]
  /\ recog' = recog /\ calls' = << >> /\ capture' = Uncaught("set", Mouse)
  /\ UNCHANGED <<impl, animeLoaded, viewport, appVars>>

pointerUpThrows(e) ==
  /\ impl = GridWM
  /\ sessions[e] # << >>
  /\ SetWM(Grid_pointerUpThrows(WM, e))
  /\ last' = [op |-> "pointerUp", id |-> els[e].id]
  /\ recog' = recog /\ calls' = << >> /\ capture' = Uncaught("release", Mouse)
  /\ UNCHANGED <<impl, animeLoaded, viewport, appVars>>

\* The recognizer's pointerdown and pointerup when the capture method throws.
gPointerDownThrows(p, target, cap) ==
  /\ Listening
  /\ ~Has(recog.pointers, p)
  /\ recog.downs < cap
  /\ SetST(onPointerDown([ST EXCEPT !.g.downs = @ + 1, !.captureOk = FALSE],
                         p, DownAt(p), target))
  /\ last' = [op |-> "g:pointerdown", id |-> els[recog.el].id]
  /\ UNCHANGED <<impl, animeLoaded, viewport, appVars>>

gPointerUpThrows(p) ==
  /\ Listening
  /\ Has(recog.pointers, p)
  /\ SetST(onPointerUp([ST EXCEPT !.captureOk = FALSE], p))
  /\ last' = [op |-> "g:pointerup", id |-> els[recog.el].id]
  /\ UNCHANGED <<impl, animeLoaded, viewport, appVars>>

\* The grid page, empty after load, or the slot page with the window 'chat'
\* and its recognizer.
InitCapture == (Init /\ impl = GridWM) \/ InitG

NextCapture ==
  \/ \E id \in GeoIds, d \in Descriptors : createWindow(id, d)
  \/ \E e \in Gestured, p \in DragDown : startDrag(e, p)
  \/ \E e \in Gestured, p \in DragDown : startThrows(e, p)
  \/ \E e \in Gestured, p \in MovePts : \E k \in 1..Len(sessions[e]) : pointerMove(e, k, p)
  \/ \E e \in Gestured : pointerUp(e)
  \/ \E e \in Gestured : pointerUpThrows(e)
  \/ animationFrame
  \/ Contact({Mouse}, MaxClicks)
  \/ \E t \in Targets : gPointerDownThrows(Mouse, t, MaxClicks)
  \/ gPointerUpThrows(Mouse)

SpecCapture == InitCapture /\ [][NextCapture]_vars

----------------------------------------------------------------------------
(* What localStorage holds when the page loads *)

\* localStorage.getItem(key): null when nothing is stored, else the text.
StoredStrings(m) ==
  {[kind |-> "absent"], [kind |-> "unparsable"],
   [kind |-> "json", value |-> JsNull], [kind |-> "json", value |-> JsNumber]}
  \cup {[kind |-> "json", value |-> o] : o \in SavedInits(m)}

\* JSON.parse(raw): throws on text that is not JSON.
JSONparse(raw) ==
  IF raw.kind = "unparsable" THEN [threw |-> TRUE, value |-> NoLayout]
  ELSE [threw |-> FALSE, value |-> raw.value]

\* readState() / loadState(): {} when nothing is stored or JSON.parse throws,
\* else whatever JSON.parse returns.
readState(raw) ==
  IF raw.kind = "absent" THEN NoLayout
  ELSE IF JSONparse(raw).threw THEN NoLayout
  ELSE JSONparse(raw).value

InitLoad ==
  /\ impl \in {GridWM, SlotWM}
  /\ animeLoaded \in BOOLEAN
  /\ viewport \in Viewports
  /\ windows = [i \in {} |-> 0]
  /\ els = [e \in {} |-> 0]
  /\ zCursor = ZStart
  /\ saved \in {readState(raw) : raw \in StoredStrings(impl)}
  /\ closing = [e \in {} |-> 0]
  /\ sessions = [e \in {} |-> 0]
  /\ raf = NoRaf
  /\ recog = NoGestures
  /\ calls = << >>
  /\ capture = << >>
  /\ last = [op |-> "load", id |-> ""]
  /\ AppIdle

\* Opening windows on the page just loaded.
NextLoad ==
  \/ \E id \in Ids, d \in Descriptors : createWindow(id, d)
  \/ \E id \in Ids : focusWindow(id)
  \/ \E v \in Viewports : onResize(v)

SpecLoad == InitLoad /\ [][NextLoad]_vars

----------------------------------------------------------------------------
(* Requests that name a window, registered or not *)

\* 'chat' opens and closes; every request can name 'chat' or 'repo', which
\* is never registered.
NextRequests ==
  \/ \E id \in GeoIds, d \in Descriptors : createWindow(id, d)
  \/ \E id \in Ids : focusWindow(id)
  \/ \E id \in Ids : closeWindow(id)
  \/ \E e \in DOMAIN els : closeComplete(e)
  \/ \E id \in Ids : setWindowSize(id, <<400, 300>>)
  \/ \E id \in Ids : minimizeWindow(id, FALSE)

SpecRequests == Init /\ [][NextRequests]_vars

----------------------------------------------------------------------------
(* The recognizer torn down *)

\* The owner of the recognizer calls the cleanup function.
gCleanup ==
  /\ recog.listening
  /\ recog.el \in DOMAIN els
  /\ SetST(cleanup(ST))
  /\ last' = [op |-> "g:cleanup", id |-> els[recog.el].id]
  /\ UNCHANGED <<impl, animeLoaded, viewport, appVars>>

NextTeardown ==
  \/ Gesture({Mouse}, MaxClicks)
  \/ gCleanup

SpecTeardown == InitG /\ [][NextTeardown]_vars

----------------------------------------------------------------------------
(* Two windows of the grid manager dragged and resized at the same time *)

\* The grid page after createWindow({ id: 'chat', ... }) and
\* createWindow({ id: 'repo', ... }) on an empty registry.
OpenedTwo ==
  Grid_createWindow(
    Grid_createWindow([windows |-> [i \in {} |-> 0], els |-> [e \in {} |-> 0],
                       zCursor |-> ZStartGrid, saved |-> NoLayout,
                       closing |-> [e \in {} |-> 0], sessions |-> [e \in {} |-> 0],
                       raf |-> NoRaf, threw |-> FALSE],
                      "chat", ChatDescriptor),
    "repo", ChatDescriptor)

InitTwo ==
  /\ impl = GridWM
  /\ animeLoaded = TRUE
  /\ viewport \in Viewports
  /\ windows = OpenedTwo.windows
  /\ els = OpenedTwo.els
  /\ zCursor = OpenedTwo.zCursor
  /\ saved = OpenedTwo.saved
  /\ closing = OpenedTwo.closing
  /\ sessions = OpenedTwo.sessions
  /\ raf = OpenedTwo.raf
  /\ recog = NoGestures
  /\ calls = << >>
  /\ capture = << >>
  /\ last = [op |-> "createWindow", id |-> "repo"]
  /\ AppIdle

\* A pointerdown on the header, or on the resize handle, of a window.
headerDown(e, p) ==
  /\ zCursor < OpenedTwo.zCursor + MaxDowns
  /\ Len(sessions[e]) < MaxSessions
  /\ SetWM(Grid_startDrag(WM, e, p))
  /\ last' = [op |-> "startDrag", id |-> els[e].id]
  /\ Env

handleDown(e, p) ==
  /\ zCursor < OpenedTwo.zCursor + MaxDowns
  /\ Len(sessions[e]) < MaxSessions
  /\ SetWM(Grid_startResize(WM, e, p))
  /\ last' = [op |-> "startResize", id |-> els[e].id]
  /\ Env

NextTwo ==
  \/ \E e \in Attached, p \in DragDown : headerDown(e, p)
  \/ \E e \in Attached, p \in ResizeDown : handleDown(e, p)
  \/ \E e \in Attached, p \in MovePts : \E k \in 1..Len(sessions[e]) : pointerMove(e, k, p)
  \/ \E e \in Attached : pointerUp(e)
  \/ animationFrame

SpecTwo == InitTwo /\ [][NextTwo]_vars

----------------------------------------------------------------------------
(* The message store on its own: no window is open *)

MaxMsgs == 3

MaxLimit == 2

MaxOffset == 4

Limits == {Undefined} \cup 0..MaxLimit

Offsets == {Undefined} \cup 0..MaxOffset

PageIdle ==
  /\ impl = GridWM
  /\ animeLoaded = FALSE
  /\ viewport = [w |-> 1280, h |-> 800]
  /\ windows = [i \in {} |-> 0]
  /\ els = [e \in {} |-> 0]
  /\ zCursor = ZStart
  /\ saved = NoLayout
  /\ closing = [e \in {} |-> 0]
  /\ sessions = [e \in {} |-> 0]
  /\ raf = NoRaf
  /\ recog = NoGestures
  /\ calls = << >>
  /\ capture = << >>

PageSame == UNCHANGED <<wmVars, recog, calls, capture>>

\* localStorage holds nothing yet, or the seed an earlier visit wrote.
InitDb ==
  /\ PageIdle
  /\ dbs \in { [NoDb EXCEPT !.impl = m, !.stored = v] :
                 m \in {DbJs, PartA, PartB}, v \in {JsonNull, seedData} }
  /\ nav = NoNav
  /\ sw = NoSw
  /\ last = [op |-> "load", id |-> ""]

DbCalled(d, op, convId, limit, offset) ==
  [d EXCEPT !.call = [op |-> op, conv |-> convId, limit |-> limit, offset |-> offset]]

DbStep(d, op, convId) ==
  /\ dbs' = d
  /\ last' = [op |-> op, id |-> convId]
  /\ PageSame
  /\ UNCHANGED <<nav, sw>>

dbGetConversations ==
  DbStep(DbCalled(getConversations(dbs), "getConversations", "", Undefined, Undefined),
         "getConversations", "")

dbGetMessages(convId, limit, offset) ==
  DbStep(DbCalled(getMessages(dbs, convId, [limit |-> limit, offset |-> offset]),
                "getMessages", convId, limit, offset),
         "getMessages", convId)

dbSaveMessage(convId, message) ==
  /\ Len(MessagesOf(ensureDb(dbs).stored, convId)) < MaxMsgs
  /\ DbStep(DbCalled(saveMessage(dbs, convId, message), "saveMessage", convId, Undefined, Undefined),
            "saveMessage", convId)

dbMarkRead(convId) ==
  DbStep(DbCalled(markRead(dbs, convId), "markRead", convId, Undefined, Undefined),
         "markRead", convId)

dbExportJson ==
  DbStep(DbCalled(exportJson(dbs), "exportJson", "", Undefined, Undefined), "exportJson", "")

dbImportJson(json) ==
  DbStep(DbCalled(importJson(dbs, json), "importJson", "", Undefined, Undefined), "importJson", "")

NextDb ==
  \/ dbGetConversations
  \/ \E c \in ConvIds, limit \in Limits, offset \in Offsets : dbGetMessages(c, limit, offset)
  \/ \E c \in ConvIds, m \in {OwnMessage, OtherMessage} : dbSaveMessage(c, m)
  \/ \E c \in ConvIds : dbMarkRead(c)
  \/ dbExportJson
  \/ \E json \in JsonTexts : dbImportJson(json)

SpecDb == InitDb /\ [][NextDb]_vars

----------------------------------------------------------------------------
(* The screen history on its own *)

MaxHistory == 4

InitNav ==
  /\ PageIdle
  /\ dbs = NoDb
  /\ nav \in { NewNav(m) : m \in {Nav1, Nav2} }
  /\ sw = NoSw
  /\ last = [op |-> "load", id |-> ""]

NavStep(n, op, screen) ==
  /\ nav' = n
  /\ last' = [op |-> op, id |-> screen]
  /\ PageSame
  /\ UNCHANGED <<dbs, sw>>

navPush(screen) ==
  /\ Len(nav.history) < MaxHistory
  /\ NavStep(pushHistory(nav, screen), "pushHistory", screen)

navPop == NavStep(popHistory(nav), "popHistory", "")

NextNav == (\E screen \in Screens : navPush(screen)) \/ navPop

SpecNav == InitNav /\ [][NextNav]_vars

----------------------------------------------------------------------------
(* The service worker on its own *)

MaxRevalidations == 1

InitSW ==
  /\ PageIdle
  /\ dbs = NoDb
  /\ nav = NoNav
  /\ sw = Installed
  /\ last = [op |-> "load", id |-> ""]

SwStep(w, op, url) ==
  /\ sw' = w
  /\ last' = [op |-> op, id |-> url]
  /\ PageSame
  /\ UNCHANGED <<dbs, nav>>

swFetch(method, url, outcome) ==
  /\ method = "GET" /\ url \in DOMAIN sw.cache => sw.pending[url] < MaxRevalidations
  /\ SwStep(onFetch(sw, method, url, outcome), "fetch", url)

swRevalidated(url, outcome) ==
  /\ sw.pending[url] > 0
  /\ SwStep(onRevalidated(sw, url, outcome), "revalidated", url)

NextSW ==
  \/ \E method \in {"GET", "POST"}, url \in Urls, outcome \in NetworkOutcomes :
       swFetch(method, url, outcome)
  \/ \E url \in Urls, outcome \in NetworkOutcomes : swRevalidated(url, outcome)

SpecSW == InitSW /\ [][NextSW]_vars

----------------------------------------------------------------------------
(* Claims *)

Registered == {windows[i] : i \in DOMAIN windows}

createWindowResult(id, d) ==
  IF impl = GridWM THEN Grid_createWindowResult(WM, id, d) ELSE Slot_createWindowResult(WM, id, d)

\* C1: the registry holds one record per id (each id maps to an element that
\* carries that id), and createWindow with a registered id adds no element
\* and no registry entry, returns the registered element and leaves it the
\* focused one.
C1_OneRecordPerId ==
  /\ [](\A i \in DOMAIN windows : windows[i] \in DOMAIN els /\ els[windows[i]].id = i)
  /\ [][\A id \in DOMAIN windows :
          last'.op = "createWindow" /\ last'.id = id
          => /\ windows' = windows
             /\ DOMAIN els' = DOMAIN els
             /\ \A d \in Descriptors : createWindowResult(id, d) = windows[id]
             /\ els'[windows[id]].focused
             /\ els'[windows[id]].z = zCursor'
             /\ zCursor' = zCursor + 1]_vars

\* createWindow ran twice for one id while nothing could close a window.
C1_Witness ==
  /\ ~animeLoaded
  /\ last.op = "createWindow"
  /\ Cardinality(DOMAIN els) = 1
  /\ zCursor = ZStart + 2

FocusOps == {"focusWindow", "createWindow", "pointerdown", "startDrag", "startResize"}

\* C2: at most one registered window is marked focused; a focus event on a
\* registered id leaves exactly that window focused, with a z-index above
\* every other registered window's, and raises the z-order counter.
C2_SingleFocus ==
  /\ [](Cardinality({e \in Registered : els[e].focused}) <= 1)
  /\ [][\A id \in DOMAIN windows' :
          last'.op \in FocusOps /\ last'.id = id
          => /\ \A e \in {windows'[i] : i \in DOMAIN windows'} :
                    els'[e].focused <=> e = windows'[id]
             /\ \A i \in DOMAIN windows' \ {id} : els'[windows'[id]].z > els'[windows'[i]].z
             /\ zCursor' > zCursor]_vars

\* Two windows are open and focus has just moved from one to the other.
C2_Witness ==
  /\ Cardinality(DOMAIN windows) = 2
  /\ last.op = "focusWindow"
  /\ last.id \in DOMAIN windows
  /\ els[windows[last.id]].focused
  /\ \E i \in DOMAIN windows \ {last.id} :
        /\ els[windows[i]].z > ZStart
        /\ els[windows[i]].z < els[windows[last.id]].z
        /\ ~els[windows[i]].focused

\* C4: after an interactive resize ends and after setWindowSize the recorded
\* width is at least 220 and the height at least 160 (so neither is negative).
C4_MinimumSize ==
  \A id \in DOMAIN windows :
    last.op \in {"pointerUp", "onResizeEnd", "setWindowSize"} /\ last.id = id
    => els[windows[id]].w >= MinWidth /\ els[windows[id]].h >= MinHeight

IsGridPoint(v) == ~IsNaN(v) /\ v % SNAP_SIZE = 0

Nearest(v, old) == ~IsNaN(old) /\ IsGridPoint(v) /\ 2 * (v - old) <= SNAP_SIZE /\ 2 * (old - v) <= SNAP_SIZE

\* C5: when a drag ends x and y are each replaced by the nearest multiple of
\* 24 and that position is persisted; a window opened at (80,80,360,320) and
\* dragged by (50,-10), so to (130,70), ends at (120,72).
C5_DragEndSnaps ==
  [][\A e \in DOMAIN els :
       last'.op \in {"pointerUp", "onDragEnd"} /\ last'.id = els[e].id /\ e \in DOMAIN els'
       /\ (impl = GridWM => sessions[e] # << >>)
       => /\ Nearest(els'[e].x, els[e].x)
          /\ Nearest(els'[e].y, els[e].y)
          /\ els[e].id \in DOMAIN saved'
          /\ saved'[els[e].id].x = els'[e].x
          /\ saved'[els[e].id].y = els'[e].y
          /\ (els[e].x = 130 /\ els[e].y = 70 => els'[e].x = 120 /\ els'[e].y = 72)]_vars

\* The callbacks of one name among those the last step invoked.
Called(cb) == SelectSeq(calls, LAMBDA c : c.cb = cb)

\* The pointer's record in the recognizer's map.
Tracked(id) == recog.pointers[Index(recog.pointers, id)]

\* C6: one pointer on the drag handle: every position handed to onDrag is the
\* window position read at pointer-down plus the pointer's displacement since
\* pointer-down, and when the pointer is down with no update pending the
\* window sits at that position, so the last delivered position minus the
\* position at pointer-down is (finalX - startX, finalY - startY).
C6_DragDisplacement ==
  /\ [](recog.mode = "drag" /\ Has(recog.pointers, Mouse) /\ recog.pendingDrag = << >>
        => /\ els[recog.el].x - recog.startWindowX = Tracked(Mouse).x - Tracked(Mouse).startX
           /\ els[recog.el].y - recog.startWindowY = Tracked(Mouse).y - Tracked(Mouse).startY)
  /\ [][recog.mode = "drag" /\ Has(recog.pointers, Mouse)
        => \A k \in 1..Len(calls') :
             calls'[k].cb = "onDrag"
             => /\ calls'[k].a - recog.startWindowX = Tracked(Mouse).x - Tracked(Mouse).startX
                /\ calls'[k].b - recog.startWindowY = Tracked(Mouse).y - Tracked(Mouse).startY]_vars

\* The pointer went down on the header of the window at (80, 80), moved by
\* (50, -10) and was released: onDrag got (130, 70) and the drag ended.
C6_Witness ==
  /\ last.op = "g:pointerup"
  /\ Len(calls) = 2
  /\ calls[1] = [cb |-> "onDrag", a |-> 130, b |-> 70, dir |-> ""]
  /\ calls[2].cb = "onDragEnd"
  /\ recog.downs = 1

\* C3: once closeWindow has removed the window's record, its persisted entry
\* is gone and stays gone (nothing in this system reopens the window): no
\* timer, animation frame or gesture callback puts it back.
C3_ClosedStaysClosed == "chat" \notin DOMAIN windows => "chat" \notin DOMAIN saved

SwipeCalls == Called("onThreeFingerSwipe")

\* The centroid of the samples is more than 60 px from where it started.
CentroidBeyond(ps) ==
  LET avg == averageDelta(ps)
  IN avg.sx * avg.sx + avg.sy * avg.sy > SWIPE_THRESHOLD * SWIPE_THRESHOLD * avg.n * avg.n

\* C7: with exactly three pointers active, the move that takes their centroid
\* beyond 60 px invokes onThreeFingerSwipe exactly once.
C7_SwipeOncePerCrossing ==
  [][Len(recog.pointers) = 3 /\ last'.op = "g:pointermove"
     /\ ~CentroidBeyond(recog.pointers)
     /\ (Len(recog'.pointers) = 3 => CentroidBeyond(recog'.pointers))
     => Len(SwipeCalls') = 1]_vars

C9_PinchScaleIsRatio ==
  [][last'.op = "g:pointermove" /\ Len(recog'.pointers) = 2
     /\ recog'.pinchInitialDistance > 0
     => recog'.pendingPinch =
          << Sq(distance2(recog'.pointers[1].x, recog'.pointers[1].y,
                          recog'.pointers[2].x, recog'.pointers[2].y),
                recog'.pinchInitialDistance) >>]_vars

Beyond(ptr) ==
  distance2(ptr.x, ptr.y, ptr.startX, ptr.startY) > MOVE_THRESHOLD * MOVE_THRESHOLD

\* C10: onLongPress is never invoked while two or more pointers are active,
\* nor while the pointer is beyond the movement threshold.
C10_LongPressCancelled ==
  [][\A k \in 1..Len(calls') :
        calls'[k].cb = "onLongPress"
        => /\ Len(recog.pointers) <= 1
           /\ \A i \in 1..Len(recog.pointers) : ~Beyond(recog.pointers[i])]_vars

\* C11: when a pointer-up or pointer-cancel takes a pinch from two active
\* pointers to one, onPinchEnd is invoked in that step and the pinch's
\* initial distance and last scale are cleared.
C11_PinchEndsAtOnePointer ==
  [][Len(recog.pointers) = 2 /\ Len(recog'.pointers) = 1 /\ recog.mode = "pinch"
     => /\ \E k \in 1..Len(calls') : calls'[k].cb = "onPinchEnd"
        /\ recog'.pinchInitialDistance = 0
        /\ recog'.pinchLastScale = SqOne]_vars

\* C12: with exactly one pointer active on the title bar, every move of that
\* pointer leaves a drag update to deliver, whatever came before.
C12_SinglePointerDrags ==
  [][last'.op = "g:pointermove" /\ Len(recog.pointers) = 1
     => recog'.pendingDrag # << >> /\ recog'.frameRequested]_vars

\* The line from the first to the second pointer has turned away from the
\* line between the points where the two went down.
Turned(ps) ==
  LET sx == ps[2].startX - ps[1].startX
      sy == ps[2].startY - ps[1].startY
      cx == ps[2].x - ps[1].x
      cy == ps[2].y - ps[1].y
  IN sx * cy - sy * cx # 0

\* C13: while two pointers are active and their angle has changed, the
\* update the recognizer delivers carries onRotate, and when that two-pointer
\* gesture ends onRotateEnd is invoked.
C13_RotateReported ==
  /\ [][Len(recog.pointers) = 2 /\ Turned(recog.pointers) /\ calls' # << >>
        /\ last'.op = "g:frame"
        => \E k \in 1..Len(calls') : calls'[k].cb = "onRotate"]_vars
  /\ [][Len(recog.pointers) = 2 /\ Turned(recog.pointers) /\ Len(recog'.pointers) < 2
        => \E k \in 1..Len(calls') : calls'[k].cb = "onRotateEnd"]_vars

\* C14: a pinch update leaves a window within the fixed ratio of its size:
\* the scale-based manager's scale within [0.7, 1.6], the size-based manager's
\* width and height numbers within 0.6 to 1.6 times what they were.
C14_PinchClamped ==
  [][\A e \in Gestured :
       last'.op = "onPinch" /\ e \in DOMAIN els'
       => IF impl = SlotWM
          THEN /\ els'[e].scale # SqNaN
               /\ ~SqLess(els'[e].scale, Sq07)
               /\ ~SqLess(Sq16, els'[e].scale)
          ELSE ~IsNaN(els[e].w) /\ ~IsNaN(els[e].h)
               => /\ ~IsNaN(els'[e].w) /\ ~IsNaN(els'[e].h)
                  /\ 6 * els[e].w <= 10 * els'[e].w /\ 10 * els'[e].w <= 16 * els[e].w
                  /\ 6 * els[e].h <= 10 * els'[e].h /\ 10 * els'[e].h <= 16 * els[e].h]_vars

\* C15: when a pinch gesture ends the window's scale is back to neutral:
\* after onPinchEnd the scale applied to the window is 1 and the scale in its
\* persisted layout entry is 1.
C15_ScaleResetAtGestureEnd ==
  [][\A e \in Gestured :
       last'.op = "onPinchEnd" /\ e \in DOMAIN els'
       => /\ els'[e].scale = SqOne
          /\ els[e].id \in DOMAIN saved' => saved'[els[e].id].scale = SqOne]_vars

\* The window manager after the step, as a record.
WMAfter == WM'

\* C16: a window that is maximized and then restored, with or without two
\* minimize toggles in between, displays the position and size it displayed
\* before it was maximized as soon as it is back in the normal state.
C16_RestoreAfterMaximize ==
  [][\A e \in Gestured :
       /\ impl = GridWM /\ last'.op = "toggleMaximize"
       /\ els[e].dstate = "" /\ els'[e].dstate = "maximized"
       => LET id == els[e].id
              restored == Grid_toggleMaximize(WMAfter, e)
              toggled == Grid_minimizeWindow(Grid_minimizeWindow(WMAfter, id, FALSE), id, FALSE)
          IN /\ restored.els[e].dstate = "" => restored.els[e].shown = els[e].shown
             /\ toggled.els[e].dstate = "" => toggled.els[e].shown = els[e].shown]_vars

\* The geometry createWindow takes from a descriptor: what it gives, or the
\* manager's defaults.
DescriptorGeometry(d) ==
  LET g == IF d.given THEN d ELSE IF impl = GridWM THEN GridDefault ELSE SlotDefault
  IN [x |-> g.x, y |-> g.y, w |-> g.w, h |-> g.h]

\* The geometry a persisted layout entry holds.
PersistedGeometry(entry) ==
  IF impl = GridWM THEN [x |-> entry.x, y |-> entry.y, w |-> entry.w, h |-> entry.h]
  ELSE [x |-> entry.x, y |-> entry.y, w |-> entry.width, h |-> entry.height]

FocusedPlace(wm) ==
  LET ws == listWindows(wm)
      active == {k \in 1..Len(ws) : wm.els[ws[k]].focused}
  IN IF active = {} THEN 0 ELSE CHOOSE k \in active : \A j \in active : k <= j

RECURSIVE Swipes(_, _, _)
Swipes(wm, direction, n) ==
  IF n = 0 THEN wm ELSE Swipes(onWindowSwipe(wm, direction), direction, n - 1)

C20_CaptureReleased ==
  [][\A p \in Pointers \cup {Mouse} :
       /\ Has(recog.pointers, p) /\ ~Has(recog'.pointers, p)
       /\ last'.op \in {"g:pointerup", "g:pointercancel"}
       => \E k \in 1..Len(capture') : capture'[k] = [op |-> "release", id |-> p]]_vars

\* C21: when acquiring or releasing pointer capture throws, no exception
\* leaves the handler and the gesture goes on: after the pointerdown the
\* pointer is tracked (the recognizer holds it, the grid manager has a
\* session listening for its moves), and after the pointerup the gesture is
\* over (the pointer is gone, no session is left).
CaptureThrew == \E k \in 1..Len(capture) : capture[k].op \in {"caught", "uncaught"}

C21_CaptureFailureTolerated ==
  CaptureThrew =>
    /\ \A k \in 1..Len(capture) : capture[k].op # "uncaught"
    /\ last.op = "g:pointerdown" => Has(recog.pointers, Mouse)
    /\ last.op = "g:pointerup" => ~Has(recog.pointers, Mouse)
    /\ last.op = "startDrag" => sessions[windows[last.id]] # << >>
    /\ last.op = "pointerUp" => sessions[windows[last.id]] = << >>

\* C22: a pinch that starts with the two contacts on the same spot computes
\* and emits no scale until their distance is positive: the pending pinch
\* update and the scale handed to onPinch are never the result of a division
\* by a zero initial distance.
C22_NoScaleFromZeroDistance ==
  /\ recog.pendingPinch # << >> => /\ recog.pendingPinch[1] # SqNaN
                                   /\ recog.pendingPinch[1][2] # 0
  /\ \A k \in 1..Len(calls) :
       calls[k].cb = "onPinch" => <<calls[k].a, calls[k].b>> # SqNaN /\ calls[k].b # 0

\* C23: whatever localStorage holds for the layout (nothing, text that does
\* not parse, JSON that is not an object, such as null), createWindow for an
\* unregistered id does not throw and registers the window; without a
\* persisted entry for the id, the window has the descriptor's geometry.
C23_LoadNeverThrows ==
  [][\A id \in Ids :
       last'.op \in {"createWindow", "createWindow:throws"} /\ last'.id = id
       /\ id \notin DOMAIN windows
       => /\ last'.op = "createWindow"
          /\ id \in DOMAIN windows'
          /\ id \notin DOMAIN saved
             => LET e == windows'[id]
                IN \E d \in Descriptors :
                     [x |-> els'[e].x, y |-> els'[e].y, w |-> els'[e].w, h |-> els'[e].h]
                       = DescriptorGeometry(d)]_vars

\* C24: focusWindow, closeWindow, setWindowSize and minimizeWindow with an id
\* that is not registered change nothing: the registry, the elements, the
\* z-index counter, the persisted layout, the pending close animations, the
\* drag sessions and the scheduled frames are what they were.
C24_UnknownIdIsNoOp ==
  [][\A id \in Ids :
       /\ last'.op \in {"focusWindow", "closeWindow", "setWindowSize", "minimizeWindow"}
       /\ last'.id = id
       /\ id \notin DOMAIN windows
       => UNCHANGED wmVars]_vars

\* setWindowSize('repo') was called while 'chat' is open with a persisted
\* entry and 'repo' is not registered: 'repo' has no persisted entry.
C24_Witness ==
  /\ last = [op |-> "setWindowSize", id |-> "repo"]
  /\ "repo" \notin DOMAIN windows
  /\ "chat" \in DOMAIN windows
  /\ "chat" \in DOMAIN saved
  /\ "repo" \notin DOMAIN saved

\* The square of the distance between the two active pointers.
PinchDistance2(ps) == distance2(ps[1].x, ps[1].y, ps[2].x, ps[2].y)

\* C25: a pinch update is emitted only for a scale that differs from the
\* last one by more than the hysteresis threshold: a move of one of two
\* active pointers that leaves their distance as it was prepares no pinch
\* update and requests no frame to deliver one.
C25_PinchHysteresis ==
  [][/\ last'.op = "g:pointermove"
     /\ Len(recog.pointers) = 2 /\ Len(recog'.pointers) = 2
     /\ PinchDistance2(recog'.pointers) = PinchDistance2(recog.pointers)
     => /\ recog'.pendingPinch = recog.pendingPinch
        /\ recog'.frameRequested = recog.frameRequested]_vars

\* How many times the step invoked callback cb.
Invoked(cs, cb) == Cardinality({k \in 1..Len(cs) : cs[k].cb = cb})

\* C26: when the last pointer of a drag or resize that has moved is released,
\* the step invokes the end callback exactly once, after the update callback
\* for the sample that was still pending (if one was), whether or not a frame
\* had delivered the updates before the release.
C26_EndAfterRelease ==
  [][/\ last'.op = "g:pointerup"
     /\ recog.mode \in {"drag", "resize"}
     /\ Len(recog.pointers) = 1
     /\ <<recog.pointers[1].x, recog.pointers[1].y>>
          # <<recog.pointers[1].startX, recog.pointers[1].startY>>
     => LET upd == IF recog.mode = "drag" THEN "onDrag" ELSE "onResize"
            end == IF recog.mode = "drag" THEN "onDragEnd" ELSE "onResizeEnd"
            pending == IF recog.mode = "drag" THEN recog.pendingDrag ELSE recog.pendingResize
        IN /\ Invoked(calls', end) = 1
           /\ calls'[Len(calls')].cb = end
           /\ pending # << >>
              => /\ Len(calls') >= 2
                 /\ calls'[Len(calls') - 1].cb = upd
                 /\ <<calls'[Len(calls') - 1].a, calls'[Len(calls') - 1].b>> = pending[1]]_vars

\* C27: once the recognizer is torn down (its last pointer was released or
\* cancelled, or its cleanup function was called) a long-press timer armed
\* before does not invoke onLongPress: the callback is invoked only while a
\* pointer is down and the recognizer still listens.
C27_NoLongPressAfterTeardown ==
  [][\A k \in 1..Len(calls') :
       calls'[k].cb = "onLongPress" => recog.listening /\ recog.pointers # << >>]_vars

\* C28: windows are isolated from each other: a pointermove of a drag or
\* resize on one window changes no other window and no other window's
\* sessions, and its own position or size update is not dropped because of
\* another window: after the step a frame is scheduled that delivers it.
C28_WindowsIsolated ==
  [][\A e \in DOMAIN els :
       last'.op = "pointerMove" /\ last'.id = els[e].id /\ e \in Attached
       => /\ \A f \in DOMAIN els \ {e} : els'[f] = els[f] /\ sessions'[f] = sessions[f]
          /\ (\E k \in 1..Len(sessions[e]) : sessions[e][k].kind = "drag") => raf'.move = e
          /\ (\E k \in 1..Len(sessions[e]) : sessions[e][k].kind = "resize")
             => raf'.size.el = e]_vars

\* The update callback that belongs to an end callback.
UpdateOf(end) ==
  IF end = "onDragEnd" THEN "onDrag"
  ELSE IF end = "onResizeEnd" THEN "onResize"
  ELSE IF end = "onPinchEnd" THEN "onPinch"
  ELSE "none"

\* C29: once the end callback of a gesture was invoked, no update callback
\* of that gesture follows: none later in the same step, and none in the
\* step that comes next (the frame that was pending when the gesture ended).
C29_NoUpdateAfterEnd ==
  [][/\ \A i, j \in 1..Len(calls') : i < j => calls'[j].cb # UpdateOf(calls'[i].cb)
     /\ \A i \in 1..Len(calls), j \in 1..Len(calls') :
          calls'[j].cb # UpdateOf(calls[i].cb)]_vars

\* C30: a window that createWindow(id) has returned stays registered until
\* closeWindow(id) is called again: when a close animation requested before
\* completes right after the createWindow call, the id is still registered
\* to the element createWindow returned.
C30_OpenedSurvivesEarlierClose ==
  [][\A id \in Ids :
       /\ last = [op |-> "createWindow", id |-> id]
       /\ id \in DOMAIN windows
       /\ last'.op = "closeComplete"
       => id \in DOMAIN windows' /\ windows'[id] = windows[id]]_vars

\* What the completion callback of element e's close animation does now.
closeCompleteResult(e) ==
  IF impl = GridWM THEN Grid_closeComplete(WM, e) ELSE Slot_closeComplete(WM, e)

\* C31: closeWindow(id) called again while the close animation runs has no
\* further effect: every completion callback that runs finds its element
\* still in the layer and registered under its id (the removal is performed
\* once), and raises no error.
C31_SecondCloseHasNoEffect ==
  [][\A e \in DOMAIN els :
       /\ last'.op = "closeComplete"
       /\ closing[e] > 0
       /\ e \notin DOMAIN els' \/ closing'[e] < closing[e]
       => /\ els[e].attached
          /\ els[e].id \in DOMAIN windows /\ windows[els[e].id] = e
          /\ ~closeCompleteResult(e).threw]_vars

\* x and y lie within the clamp bounds of a w by h window in the viewport.
WithinClamp(rec) ==
  /\ ~IsNaN(rec.x) /\ ~IsNaN(rec.y)
  /\ rec.x >= ClampPadding /\ rec.y >= ClampPadding
  /\ rec.x <= MathMax(ClampPadding, viewport.w - rec.w - ClampPadding)
  /\ rec.y <= MathMax(ClampPadding, viewport.h - rec.h - ClampPadding)

\* C32: after a drag has ended (snap included) and after a browser resize
\* event, the recorded position of every window of the grid manager lies
\* within the clamp bounds: at least 16 from the left and top, and at most
\* max(16, viewport - size - 16).
C32_PositionWithinClamp ==
  impl = GridWM /\ last.op \in {"pointerUp", "resize"}
  => \A id \in DOMAIN windows : WithinClamp(els[windows[id]])

\* C33: whenever no gesture is in progress, the persisted layout entry of
\* every open window of the grid manager that has one holds the window's
\* recorded x, y, width and height.
C33_PersistedMatchesGeometry ==
  impl = GridWM /\ (\A e \in DOMAIN sessions : sessions[e] = << >>)
  => \A id \in DOMAIN windows \cap DOMAIN saved :
       LET rec == els[windows[id]]
       IN PersistedGeometry(saved[id]) = [x |-> rec.x, y |-> rec.y, w |-> rec.w, h |-> rec.h]


\* The messages that end `offset` before the newest one, at most `limit` of them.
WindowOf(all, limit, offset) ==
  IF limit = 0 \/ offset >= Len(all) THEN << >>
  ELSE SubSeq(all,
              IF Len(all) - offset - limit < 0 THEN 1 ELSE Len(all) - offset - limit + 1,
              Len(all) - offset)

\* C34: getMessages(convId, {limit, offset}) of db.js and of the second db module
\* of part_000 returns the stored messages that end `offset` before the newest
\* one, at most `limit` of them and in stored order; nothing when limit is 0 or
\* offset is at least the number of stored messages.
C34_GetMessagesWindow ==
  /\ dbs.impl \in {DbJs, PartB}
  /\ dbs.call.op = "getMessages"
  /\ dbs.call.limit # Undefined /\ dbs.call.offset # Undefined
  /\ ~dbs.ret.threw
  => dbs.ret.msgs = WindowOf(MessagesOf(dbs.stored, dbs.call.conv), dbs.call.limit, dbs.call.offset)


NoOpts == [limit |-> Undefined, offset |-> Undefined]

\* Every read of the store d succeeds and shows what d holds.
ReadsReflect(d) ==
  /\ ~getConversations(d).ret.threw
  /\ getConversations(d).ret.convs = { d.stored.conversations[i] : i \in DOMAIN d.stored.conversations }
  /\ \A c \in ConvIds :
       /\ ~getMessages(d, c, NoOpts).ret.threw
       /\ getMessages(d, c, NoOpts).ret.msgs = MessagesOf(d.stored, c)
  /\ exportJson(d).ret.db = d.stored

\* C35: importJson either stores a well-formed database (an object with a
\* conversations array and a messages map) or throws and leaves the stored
\* database as it was; after an import that succeeded, getConversations,
\* getMessages and exportJson succeed and show the imported data.
C35_ImportStoresWellFormedOrThrows ==
  [][dbs'.call.op = "importJson"
     => \/ dbs'.ret.threw /\ dbs'.stored = dbs.stored
        \/ /\ ~dbs'.ret.threw
           /\ WellFormed(dbs'.stored)
           /\ ReadsReflect(dbs')]_vars


\* The unread counter of conversation c in the database v (0 when c is not listed).
UnreadOf(v, c) ==
  IF find(v.conversations, c) = {} THEN 0
  ELSE v.conversations[CHOOSE i \in find(v.conversations, c) : TRUE].unread

\* What saveMessage / markRead found in the store: the seed when it was empty.
Before == ensureDb(dbs).stored

AppendsOne(c) ==
  /\ Len(MessagesOf(dbs'.stored, c)) = Len(MessagesOf(Before, c)) + 1
  /\ SubSeq(MessagesOf(dbs'.stored, c), 1, Len(MessagesOf(Before, c))) = MessagesOf(Before, c)
  /\ \A o \in ConvIds \ {c} :
       /\ MessagesOf(dbs'.stored, o) = MessagesOf(Before, o)
       /\ UnreadOf(dbs'.stored, o) = UnreadOf(Before, o)

CountsUnread(c) ==
  LET m == MessagesOf(dbs'.stored, c)[Len(MessagesOf(dbs'.stored, c))]
  IN find(Before.conversations, c) # {}
     => UnreadOf(dbs'.stored, c) = UnreadOf(Before, c) + (IF m.outgoing THEN 0 ELSE 1)

\* C36: a conversation's unread counter counts the messages of other authors
\* saved since the last markRead: saveMessage of such a message adds one, of an
\* outgoing message adds nothing, markRead sets it to 0; saveMessage appends
\* exactly one message at the end of that conversation's list and leaves the
\* other conversations as they were.
C36_UnreadCountsIncoming ==
  [][/\ (dbs'.call.op = "saveMessage" /\ ~dbs'.ret.threw
           => AppendsOne(dbs'.call.conv) /\ CountsUnread(dbs'.call.conv))
     /\ (dbs'.call.op = "markRead" /\ ~dbs'.ret.threw
           => UnreadOf(dbs'.stored, dbs'.call.conv) = 0)]_vars


\* C37: after any pushHistory or popHistory the history is not empty and
\* currentScreen is its last entry; pushing the screen that is already on top
\* does not grow the history; popHistory on a history of one entry removes
\* nothing.
C37_HistoryNeverEmpty ==
  [][last'.op \in {"pushHistory", "popHistory"}
     => /\ nav'.history # << >>
        /\ nav'.currentScreen = AtLast(nav'.history)
        /\ (last'.op = "pushHistory" /\ last'.id = AtLast(nav.history)
              => nav'.history = nav.history)
        /\ (last'.op = "popHistory" /\ Len(nav.history) = 1
              => nav'.history = nav.history)]_vars


\* C38: the service worker puts a response into the cache only when its status
\* is 200 and its type basic, so that no cached entry is ever replaced by an
\* error response, and a GET request for a cached URL is answered from the
\* cache whatever the network does.
C38_CacheHoldsOnlyOkResponses ==
  [][/\ \A u \in DOMAIN sw'.cache :
          sw'.cache[u].status = StatusOk /\ sw'.cache[u].type = "basic"
     /\ (last'.op = "fetch" /\ sw'.request.method = "GET" /\ sw'.request.url \in DOMAIN sw.cache
           => sw'.answer = Answer("cache", sw.cache[sw'.request.url]))]_vars

====
